---- MODULE Spec2Model ----
(***************************************************************************)
(* stufflog: a journalling CLI that keeps one YAML file per category.      *)
(*                                                                         *)
(* The model follows the FileService-based revision of the application     *)
(* (src/stufflog/stufflog_app.py with src/services/file_service.py and     *)
(* src/stufflog/services/git_service.py).                                  *)
(*                                                                         *)
(* Conventions                                                             *)
(*  - A Python str is a sequence of symbols.  User text is spelled one     *)
(*    character per symbol; the literals of the program ("Entries",        *)
(*    "Datetime", "Rating", "Comment", ".yml") are one symbol each.        *)
(*  - A Python value is a record tagged by t: none, int, str, datetime,    *)
(*    list, dict.  A dict keeps its items in insertion order.              *)
(*  - The text of a YAML file is kept as the tree of tokens yaml.dump      *)
(*    emits: scalars with their style (plain or quoted) and their text,    *)
(*    mappings with their pairs in file order.                             *)
(*  - One command of the CLI is one action: the process is single-threaded *)
(*    and runs one command per invocation.                                 *)
(***************************************************************************)
EXTENDS Integers, Sequences, FiniteSets, TLC

VARIABLES
    files,      \* backing directory: path -> file content (or Absent)
    gitDir,     \* whether <base_dir>/.git exists
    remotes,    \* whether a git remote is configured in the repository
    now,        \* the wall clock, read by datetime.datetime.now()
    last,       \* the last command: arguments, calls made, outcome, result
    live,       \* history: path -> titles added and not deleted since
    gone,       \* history: path -> titles deleted and not re-added since
    procs       \* concurrent invocations: position and in-memory data of each

vars == <<files, gitDir, remotes, now, last, live, gone, procs>>

(***************************************************************************)
(* Bounds of the model.                                                    *)
(***************************************************************************)
MaxClock == 2          \* number of clock readings (successful adds) explored
MaxStoreEntries == 2   \* entries of the stufflog values drawn for Save/Load
MaxQueryEntries == 2   \* entries of the stores drawn for query and search

(***************************************************************************)
(* Python values.                                                          *)
(***************************************************************************)
PyNone == [t |-> "none"]
PyInt(n) == [t |-> "int", n |-> n]
PyStr(s) == [t |-> "str", s |-> s]
PyDatetime(n) == [t |-> "datetime", n |-> n]
PyList(elems) == [t |-> "list", elems |-> elems]
PyDict(items) == [t |-> "dict", items |-> items]

EmptyDict == PyDict(<<>>)

kEntries == PyStr(<<"Entries">>)
kDatetime == PyStr(<<"Datetime">>)
kRating == PyStr(<<"Rating">>)
kComment == PyStr(<<"Comment">>)

Range(seq) == {seq[i] : i \in DOMAIN seq}

Keys(d) == {d.items[i].k : i \in DOMAIN d.items}

KeySeq(d) == [i \in DOMAIN d.items |-> d.items[i].k]

\* key in d
DictHas(d, key) == \E i \in DOMAIN d.items : d.items[i].k = key

\* d[key], for a key of d
DictGet(d, key) == d.items[CHOOSE i \in DOMAIN d.items : d.items[i].k = key].v

\* d.get(key, default)
DictGetDefault(d, key, default) ==
    IF DictHas(d, key) THEN DictGet(d, key) ELSE default

\* d[key] = value: an existing key keeps its position, a new key goes last
DictSet(d, key, value) ==
    IF DictHas(d, key)
    THEN PyDict([i \in DOMAIN d.items |->
                    IF d.items[i].k = key THEN [k |-> key, v |-> value]
                    ELSE d.items[i]])
    ELSE PyDict(Append(d.items, [k |-> key, v |-> value]))

\* a delete that removes nothing
DictDel_noop(d, key) == d

\* a delete that removes every key
DictDel_all(d, key) == PyDict(<<>>)

\* del d[key]
DictDel(d, key) ==
    PyDict(SelectSeq(d.items, LAMBDA it : it.k # key))

\* the value of an expression, named once: F applied to v
Bind(v, F(_)) == F(v)

(***************************************************************************)
(* Text: decimal numerals, timestamps, letter case.                        *)
(***************************************************************************)
DigitSyms == <<"0", "1", "2", "3", "4", "5", "6", "7", "8", "9">>

Digits == {"0", "1", "2", "3", "4", "5", "6", "7", "8", "9"}

IsDigit(c) == c \in Digits

DigitVal(c) == (CHOOSE i \in DOMAIN DigitSyms : DigitSyms[i] = c) - 1

RECURSIVE NatToStr(_)
NatToStr(n) ==
    IF n < 10 THEN <<DigitSyms[n + 1]>>
    ELSE NatToStr(n \div 10) \o <<DigitSyms[(n % 10) + 1]>>

\* str(n) of a Python int
IntToStr(n) == IF n < 0 THEN <<"-">> \o NatToStr(0 - n) ELSE NatToStr(n)

RECURSIVE StrToNat(_)
StrToNat(s) ==
    IF Len(s) = 0 THEN 0
    ELSE 10 * StrToNat(SubSeq(s, 1, Len(s) - 1)) + DigitVal(s[Len(s)])

AllDigits(s) == Len(s) > 0 /\ \A i \in DOMAIN s : IsDigit(s[i])

\* the text of a decimal integer: an optional sign and digits
IsIntText(s) ==
    \/ AllDigits(s)
    \/ Len(s) > 1 /\ s[1] \in {"-", "+"} /\ AllDigits(Tail(s))

StrToInt(s) ==
    IF s[1] = "-" THEN 0 - StrToNat(Tail(s))
    ELSE IF s[1] = "+" THEN StrToNat(Tail(s))
    ELSE StrToNat(s)

\* The text of an ISO-8601 timestamp is written T followed by the instant,
\* and by the UTC offset if the timestamp carries one.
Offset == "+00:00"
TsAware(s) == Len(s) > 0 /\ s[Len(s)] = Offset
TsDigits(s) == IF TsAware(s) THEN SubSeq(s, 2, Len(s) - 1) ELSE Tail(s)
IsTimestampText(s) == Len(s) > 1 /\ s[1] = "T" /\ AllDigits(TsDigits(s))

\* datetime.isoformat()
isoformat(n) == <<"T">> \o NatToStr(n)

\* datetime.datetime.fromisoformat(v): the instant, or the exception raised
fromisoformat(v) ==
    IF v.t # "str" THEN [exc |-> "TypeError", n |-> 0, aware |-> FALSE]
    ELSE IF IsTimestampText(v.s)
    THEN [exc |-> "none", n |-> StrToNat(TsDigits(v.s)), aware |-> TsAware(v.s)]
    ELSE [exc |-> "ValueError", n |-> 0, aware |-> FALSE]

LowerSym(c) ==
    CASE c = "A" -> "a"
      [] c = "B" -> "b"
      [] c = "D" -> "d"
      [] c = "T" -> "t"
      [] OTHER -> c

\* a lower() that leaves every letter as it is
lower_identity(s) == s

\* str.lower()
lower(s) == [i \in DOMAIN s |-> LowerSym(s[i])]

\* needle in haystack, for two strs
Contains(haystack, needle) ==
    \E i \in 1..(Len(haystack) - Len(needle) + 1) :
        SubSeq(haystack, i, i + Len(needle) - 1) = needle

\* str.endswith(suffix)
endswith(s, suffix) ==
    /\ Len(s) >= Len(suffix)
    /\ SubSeq(s, Len(s) - Len(suffix) + 1, Len(s)) = suffix

(***************************************************************************)
(* YAML: yaml.dump and yaml.safe_load.                                     *)
(***************************************************************************)
Scalar(style, text) == [y |-> "scalar", style |-> style, text |-> text]
MapNode(pairs) == [y |-> "map", pairs |-> pairs]
SeqNode(elems) == [y |-> "seq", elems |-> elems]

\* what the implicit resolver makes of a plain scalar
ResolvePlain(text) ==
    IF text \in {<<>>, <<"~">>, <<"null">>} THEN "none"
    ELSE IF IsIntText(text) THEN "int"
    ELSE IF IsTimestampText(text) THEN "datetime"
    ELSE "str"

\* the style the representer gives a str: plain only if it reads back as a str
StrStyle(text) == IF ResolvePlain(text) = "str" THEN "plain" ELSE "quoted"

\* the order of the symbols, for comparing strs
Alphabet == <<"-", ".yml", "0", "1", "2", "3", "4", "5", "6", "7", "8", "9",
              "A", "B", "Comment", "D", "Datetime", "Entries", "Rating", "T",
              "Title", "a", "b", "d", "m", "t">>

SymRank(c) == CHOOSE i \in DOMAIN Alphabet : Alphabet[i] = c

RECURSIVE StrLess(_, _)
\* a < b on two strs
StrLess(a, b) ==
    IF Len(b) = 0 THEN FALSE
    ELSE IF Len(a) = 0 THEN TRUE
    ELSE IF Head(a) = Head(b) THEN StrLess(Tail(a), Tail(b))
    ELSE SymRank(Head(a)) < SymRank(Head(b))

RECURSIVE InsertSorted(_, _)
InsertSorted(sorted, it) ==
    IF Len(sorted) = 0 THEN <<it>>
    ELSE IF StrLess(it.k.s, Head(sorted).k.s) THEN <<it>> \o sorted
    ELSE <<Head(sorted)>> \o InsertSorted(Tail(sorted), it)

RECURSIVE SortItems(_)
SortItems(items) ==
    IF Len(items) = 0 THEN <<>>
    ELSE InsertSorted(SortItems(Tail(items)), Head(items))

\* the emit order under sort_keys=True, the default of yaml.dump
EmitOrder_sorted(items) ==
    IF \A i \in DOMAIN items : items[i].k.t = "str" THEN SortItems(items)
    ELSE items

\* a dump that emits the items last first
EmitOrder_reversed(items) == [i \in DOMAIN items |-> items[Len(items) + 1 - i]]

\* the order in which a mapping's items are emitted (sort_keys=False)
EmitOrder(items) == items

RECURSIVE represent(_)
represent(v) ==
    CASE v.t = "none" -> Scalar("plain", <<"null">>)
      [] v.t = "int" -> Scalar("plain", IntToStr(v.n))
      [] v.t = "str" -> Scalar(StrStyle(v.s), v.s)
      [] v.t = "datetime" -> Scalar("plain", isoformat(v.n))
      [] v.t = "list" -> SeqNode([i \in DOMAIN v.elems |-> represent(v.elems[i])])
      [] v.t = "dict" ->
            LET its == EmitOrder(v.items)
            IN  MapNode([i \in DOMAIN its |->
                            [k |-> represent(its[i].k), v |-> represent(its[i].v)]])

RECURSIVE construct(_)
RECURSIVE ConstructPairs(_, _)
\* the pairs of a mapping node, inserted one by one into a dict
ConstructPairs(pairs, acc) ==
    IF Len(pairs) = 0 THEN acc
    ELSE ConstructPairs(Tail(pairs),
                        DictSet(acc, construct(Head(pairs).k), construct(Head(pairs).v)))

construct(node) ==
    CASE node.y = "seq" -> PyList([i \in DOMAIN node.elems |-> construct(node.elems[i])])
      [] node.y = "map" -> ConstructPairs(node.pairs, EmptyDict)
      [] node.y = "scalar" ->
            IF node.style = "quoted" THEN PyStr(node.text)
            ELSE LET r == ResolvePlain(node.text)
                 IN  CASE r = "none" -> PyNone
                       [] r = "int" -> PyInt(StrToInt(node.text))
                       [] r = "datetime" -> PyDatetime(StrToNat(TsDigits(node.text)))
                       [] OTHER -> PyStr(node.text)

\* contents of a backing file
Absent == [kind |-> "absent"]
EmptyFile == [kind |-> "empty"]
Garbage == [kind |-> "garbage"]
Doc(node) == [kind |-> "doc", node |-> node]

\* yaml.dump(data, f, default_flow_style=False, sort_keys=False)
yaml_dump(data) == Doc(represent(data))

\* yaml.safe_load(f): the value, or YAMLError
yaml_safe_load(content) ==
    CASE content.kind = "empty" -> [exc |-> "none", val |-> PyNone]
      [] content.kind = "garbage" -> [exc |-> "YAMLError", val |-> PyNone]
      [] content.kind = "doc" -> [exc |-> "none", val |-> construct(content.node)]

\* bool(v)
Truthy(v) ==
    CASE v.t = "none" -> FALSE
      [] v.t = "int" -> v.n # 0
      [] v.t = "str" -> Len(v.s) > 0
      [] v.t = "list" -> Len(v.elems) > 0
      [] v.t = "dict" -> Len(v.items) > 0
      [] OTHER -> TRUE

(***************************************************************************)
(* FileService.                                                            *)
(***************************************************************************)
YmlExt == <<".yml">>

\* FileService.get_stufflog_path: the file name under the stufflog directory
get_stufflog_path(name) ==
    IF ~endswith(name, YmlExt) THEN name \o YmlExt ELSE name

\* an existence test that always succeeds
exists_always(fs, path) == TRUE

\* an existence test that always fails
exists_never(fs, path) == FALSE

\* Path.exists()
exists(fs, path) == fs[path].kind # "absent"

\* "Entries" not in data, followed by data["Entries"] = {}, by the type of data
EnsureEntries(data) ==
    CASE data.t = "dict" ->
            [exc |-> "none",
             val |-> IF ~DictHas(data, kEntries)
                     THEN DictSet(data, kEntries, EmptyDict) ELSE data]
      [] data.t = "str" ->
            IF ~Contains(data.s, kEntries.s)
            THEN [exc |-> "TypeError", val |-> PyNone]
            ELSE [exc |-> "none", val |-> data]
      [] data.t = "list" ->
            IF ~(kEntries \in Range(data.elems))
            THEN [exc |-> "TypeError", val |-> PyNone]
            ELSE [exc |-> "none", val |-> data]
      [] OTHER -> [exc |-> "TypeError", val |-> PyNone]

\* an initial value without the Entries key
empty_stufflog_bare == EmptyDict

\* {"Entries": {}}
empty_stufflog == PyDict(<<[k |-> kEntries, v |-> EmptyDict]>>)

\* a load that creates the missing file, as the comment in the handler says
FileService_load_create(fs, name) ==
    Bind(get_stufflog_path(name), LAMBDA path :
    IF fs[path].kind = "absent"
    THEN [exc |-> "none", val |-> empty_stufflog,
          fs |-> [fs EXCEPT ![path] = yaml_dump(empty_stufflog)]]
    ELSE Bind(yaml_safe_load(fs[path]), LAMBDA loaded :
         IF loaded.exc = "YAMLError"
         THEN [exc |-> "none", val |-> empty_stufflog, fs |-> fs]
         ELSE Bind(EnsureEntries(IF Truthy(loaded.val) THEN loaded.val ELSE EmptyDict),
                   LAMBDA r : [exc |-> r.exc, val |-> r.val, fs |-> fs])))

\* FileService.load_stufflog: the exception raised or the value returned, and
\* the files afterwards (the method writes nothing)
FileService_load_stufflog(fs, name) ==
    Bind(fs[get_stufflog_path(name)], LAMBDA content :
    IF content.kind = "absent"
    THEN [exc |-> "none", val |-> empty_stufflog, fs |-> fs]
    ELSE Bind(yaml_safe_load(content), LAMBDA loaded :
         IF loaded.exc = "YAMLError"
         THEN [exc |-> "none", val |-> empty_stufflog, fs |-> fs]
         ELSE Bind(EnsureEntries(IF Truthy(loaded.val) THEN loaded.val ELSE EmptyDict),
                   LAMBDA r : [exc |-> r.exc, val |-> r.val, fs |-> fs])))

\* a save that removes the backing file of a stufflog left without entries
FileService_save_prune(fs, name, data) ==
    LET path == get_stufflog_path(name)
    IN  IF fs[path].kind # "absent" /\ data = empty_stufflog
        THEN [fs EXCEPT ![path] = Absent]
        ELSE [fs EXCEPT ![path] = yaml_dump(data)]

\* a save that re-reads the file and keeps the entries it finds there
FileService_save_merge(fs, name, data) ==
    LET path == get_stufflog_path(name)
        mine == DictGet(data, kEntries)
        theirs == DictGet(construct(fs[path].node), kEntries)
        kept == SelectSeq(theirs.items, LAMBDA it : ~DictHas(mine, it.k))
    IN  IF fs[path].kind = "doc" /\ data.t = "dict" /\ DictHas(data, kEntries)
        THEN [fs EXCEPT ![path] =
                 yaml_dump(DictSet(data, kEntries, PyDict(kept \o mine.items)))]
        ELSE [fs EXCEPT ![path] = yaml_dump(data)]

\* FileService.save_stufflog
FileService_save_stufflog(fs, name, data) ==
    [fs EXCEPT ![get_stufflog_path(name)] = yaml_dump(data)]

(***************************************************************************)
(* GitService.  Each git subprocess either exits 0 or raises               *)
(* CalledProcessError; which, is the environment's choice (the ok          *)
(* arguments).  The repository has this program as its only writer, so a   *)
(* pull never changes the working tree.                                    *)
(***************************************************************************)
\* GitService.has_remotes
has_remotes(gd, rm, ok) ==
    IF ~gd THEN FALSE
    ELSE IF ok THEN rm
    ELSE FALSE

\* GitService.pull
pull(gd, rm, hrOk, ok) ==
    IF ~has_remotes(gd, rm, hrOk) THEN FALSE
    ELSE ok

\* GitService.push: add, commit (its failure is ignored), push
push(gd, rm, hrOk, ok) ==
    IF ~has_remotes(gd, rm, hrOk) THEN FALSE
    ELSE ok

\* what pull and push print: "Git pull failed" or "Git push failed" on the
\* error stream when the git command fails, nothing when has_remotes is false
pull_io(gd, rm, hrOk, ok) ==
    IF has_remotes(gd, rm, hrOk) /\ ~ok THEN <<"err">> ELSE <<>>

\* the exception subprocess.run raises when git cannot be launched
LaunchError == "FileNotFoundError"

InitOutcomes == {"ok", "init_failed", "commit_failed"}

\* with the case that git cannot be launched
InitFaultOutcomes == InitOutcomes \cup {"launch_failed"}

\* GitService.init: git init, git add, git commit
init(gd, outcome) ==
    IF gd THEN [exc |-> "none", ret |-> TRUE, gitDir |-> TRUE, io |-> <<>>]
    ELSE CASE outcome = "ok" ->
                [exc |-> "none", ret |-> TRUE, gitDir |-> TRUE, io |-> <<>>]
           [] outcome = "init_failed" ->
                [exc |-> "none", ret |-> FALSE, gitDir |-> FALSE, io |-> <<"err">>]
           [] outcome = "commit_failed" ->
                [exc |-> "none", ret |-> FALSE, gitDir |-> TRUE, io |-> <<"err">>]
           [] outcome = "launch_failed" ->
                [exc |-> LaunchError, ret |-> FALSE, gitDir |-> FALSE, io |-> <<>>]

\* GitService.setup_remote
setup_remote(gd, rm, outcome, addOk) ==
    Bind(init(gd, outcome), LAMBDA i :
    IF i.exc # "none"
    THEN [exc |-> i.exc, ret |-> FALSE, gitDir |-> i.gitDir, remotes |-> rm,
          io |-> i.io]
    ELSE IF ~i.ret
    THEN [exc |-> "none", ret |-> FALSE, gitDir |-> i.gitDir, remotes |-> rm,
          io |-> Append(i.io, "err")]
    ELSE IF outcome = "launch_failed"
    THEN [exc |-> LaunchError, ret |-> FALSE, gitDir |-> TRUE, remotes |-> rm,
          io |-> i.io]
    ELSE IF addOk
    THEN [exc |-> "none", ret |-> TRUE, gitDir |-> TRUE, remotes |-> TRUE,
          io |-> i.io \o <<"out", "out">>]
    ELSE [exc |-> "none", ret |-> FALSE, gitDir |-> TRUE, remotes |-> rm,
          io |-> Append(i.io, "err")])

\* the outcomes of "if has_remotes(): pull()" and of "if has_remotes(): push()":
\* what has_remotes returns, and what the pull or push returns and prints if
\* it is called
Synced(gd, rm, transfer(_, _, _, _)) ==
    {<<has_remotes(gd, rm, a),
       has_remotes(gd, rm, a) /\ transfer(gd, rm, b, c),
       IF has_remotes(gd, rm, a) THEN pull_io(gd, rm, b, c) ELSE <<>> >> :
        a \in BOOLEAN, b \in BOOLEAN, c \in BOOLEAN}

\* the environment of one command: what each collaborator call returns and
\* prints, and the call, if any, in which git cannot be launched
GitEnvs(gd, rm) ==
    {[hr1 |-> p[1], pull |-> p[2], pullIo |-> p[3],
      hr2 |-> q[1], push |-> q[2], pushIo |-> q[3], fault |-> "none"] :
        p \in Synced(gd, rm, pull), q \in Synced(gd, rm, push)}

\* has_remotes, pull and push launch git only if the git directory exists
GitFaultEnvs(gd, rm) ==
    {[e EXCEPT !.fault = f] :
        e \in GitEnvs(gd, rm),
        f \in IF gd THEN {"none", "hr1", "pull", "hr2", "push"} ELSE {"none"}}

(***************************************************************************)
(* StufflogApp.  Each operation yields the exception raised (exc, "none"   *)
(* if it returns), the calls made on the collaborators, the files          *)
(* afterwards and the value returned.                                      *)
(***************************************************************************)
Call(fn, ret) == [fn |-> fn, ret |-> ret]

NotFoundCategory == "StufflogError: no stufflog found, use init"
NotFoundEntry == "StufflogError: no entry titled"
Conflict == "StufflogError: entry already exists"
AlreadyExists == "StufflogError: stufflog already exists"
LoadError == "StufflogError: error loading stufflog"

\* a load that gives up when the pull fails
load_stufflog_abort(fs, category, e) ==
    IF e.hr1 /\ ~e.pull
    THEN [exc |-> LoadError,
          calls |-> <<Call("has_remotes", TRUE), Call("pull", FALSE)>>,
          data |-> PyNone, fs |-> fs, io |-> e.pullIo]
    ELSE Bind(<<Call("has_remotes", e.hr1)>>
              \o (IF e.hr1 THEN <<Call("pull", TRUE)>> ELSE <<>>)
              \o <<Call("exists", exists(fs, get_stufflog_path(category)))>>,
              LAMBDA calls :
         IF ~calls[Len(calls)].ret
         THEN [exc |-> NotFoundCategory, calls |-> calls, data |-> PyNone, fs |-> fs,
               io |-> <<>>]
         ELSE Bind(FileService_load_stufflog(fs, category), LAMBDA r :
              [exc |-> IF r.exc # "none" THEN LoadError ELSE "none",
               calls |-> Append(calls, Call("load", r.exc = "none")),
               data |-> r.val, fs |-> r.fs, io |-> <<>>]))

\* StufflogApp.load_stufflog
load_stufflog(fs, category, e) ==
    IF e.fault = "hr1"
    THEN [exc |-> LaunchError, calls |-> <<>>, data |-> PyNone, fs |-> fs,
          io |-> <<>>]
    ELSE IF e.hr1 /\ e.fault = "pull"
    THEN [exc |-> LaunchError, calls |-> <<Call("has_remotes", TRUE)>>,
          data |-> PyNone, fs |-> fs, io |-> <<>>]
    ELSE Bind([calls |-> <<Call("has_remotes", e.hr1)>>
                         \o (IF e.hr1 THEN <<Call("pull", e.pull)>> ELSE <<>>)
                         \o <<Call("exists", exists(fs, get_stufflog_path(category)))>>,
               io |-> IF e.hr1 THEN e.pullIo ELSE <<>>],
              LAMBDA pulled :
         IF ~pulled.calls[Len(pulled.calls)].ret
         THEN [exc |-> NotFoundCategory, calls |-> pulled.calls, data |-> PyNone,
               fs |-> fs, io |-> pulled.io]
         ELSE Bind(FileService_load_stufflog(fs, category), LAMBDA r :
              IF r.exc # "none"
              THEN [exc |-> LoadError,
                    calls |-> Append(pulled.calls, Call("load", FALSE)),
                    data |-> PyNone, fs |-> r.fs, io |-> pulled.io]
              ELSE [exc |-> "none",
                    calls |-> Append(pulled.calls, Call("load", TRUE)),
                    data |-> r.val, fs |-> r.fs, io |-> pulled.io]))

\* a save that keeps the file as it was when the push fails
save_stufflog_undo(fs, category, data, e) ==
    [exc |-> "none",
     fs |-> IF e.hr2 /\ ~e.push THEN fs
            ELSE FileService_save_stufflog(fs, category, data),
     calls |-> <<Call("save", TRUE), Call("has_remotes", e.hr2)>>
               \o (IF e.hr2 THEN <<Call("push", e.push)>> ELSE <<>>),
     io |-> IF e.hr2 THEN e.pushIo ELSE <<>>]

\* a save that pushes before it writes the file
save_stufflog_push_first(fs, category, data, e) ==
    [exc |-> "none",
     fs |-> FileService_save_stufflog(fs, category, data),
     calls |-> <<Call("has_remotes", e.hr2)>>
               \o (IF e.hr2 THEN <<Call("push", e.push)>> ELSE <<>>)
               \o <<Call("save", TRUE)>>,
     io |-> IF e.hr2 THEN e.pushIo ELSE <<>>]

\* StufflogApp.save_stufflog
save_stufflog(fs, category, data, e) ==
    Bind(FileService_save_stufflog(fs, category, data), LAMBDA written :
    IF e.fault = "hr2"
    THEN [exc |-> LaunchError, fs |-> written, calls |-> <<Call("save", TRUE)>>,
          io |-> <<>>]
    ELSE IF e.hr2 /\ e.fault = "push"
    THEN [exc |-> LaunchError, fs |-> written,
          calls |-> <<Call("save", TRUE), Call("has_remotes", TRUE)>>,
          io |-> <<>>]
    ELSE [exc |-> "none", fs |-> written,
          calls |-> <<Call("save", TRUE), Call("has_remotes", e.hr2)>>
                    \o (IF e.hr2 THEN <<Call("push", e.push)>> ELSE <<>>),
          io |-> IF e.hr2 THEN e.pushIo ELSE <<>>])

\* container[key], as far as the program uses it
GetItem(container, key) ==
    IF container.t = "dict"
    THEN IF DictHas(container, key)
         THEN [exc |-> "none", val |-> DictGet(container, key)]
         ELSE [exc |-> "KeyError", val |-> PyNone]
    ELSE [exc |-> "TypeError", val |-> PyNone]

\* a membership test that ignores letter case in the keys of a dict
PyIn_lower(key, container) ==
    IF container.t = "dict" /\ key.t = "str"
    THEN [exc |-> "none",
          val |-> \E k \in Keys(container) :
                      k.t = "str" /\ lower(k.s) = lower(key.s)]
    ELSE [exc |-> "TypeError", val |-> FALSE]

\* a membership test that never finds the key
PyIn_never(key, container) == [exc |-> "none", val |-> FALSE]

\* a membership test that always finds the key
PyIn_always(key, container) == [exc |-> "none", val |-> TRUE]

\* key in container
PyIn(key, container) ==
    CASE container.t = "dict" -> [exc |-> "none", val |-> DictHas(container, key)]
      [] container.t = "list" -> [exc |-> "none", val |-> key \in Range(container.elems)]
      [] container.t = "str" ->
            IF key.t = "str"
            THEN [exc |-> "none", val |-> Contains(container.s, key.s)]
            ELSE [exc |-> "TypeError", val |-> FALSE]
      [] OTHER -> [exc |-> "TypeError", val |-> FALSE]

\* the outcome of an operation that raises exc after the load ld
Raise(exc, ld) ==
    [exc |-> exc, calls |-> ld.calls, fs |-> ld.fs, result |-> <<>>, io |-> ld.io]

\* an entry that keeps every comment given, the empty one too
new_entry_keep_comment(clock, rating, comment) ==
    LET base == PyDict(<<[k |-> kDatetime, v |-> PyStr(isoformat(clock))],
                         [k |-> kRating, v |-> rating]>>)
    IN  IF comment.t # "none" THEN DictSet(base, kComment, comment) ELSE base

\* the entry add_entry builds
new_entry(clock, rating, comment) ==
    LET base == PyDict(<<[k |-> kDatetime, v |-> PyStr(isoformat(clock))],
                         [k |-> kRating, v |-> rating]>>)
    IN  IF Truthy(comment) THEN DictSet(base, kComment, comment) ELSE base

\* StufflogApp.add_entry
add_entry(fs, clock, category, title, rating, comment, e) ==
    Bind(load_stufflog(fs, category, e), LAMBDA ld :
    IF ld.exc # "none" THEN Raise(ld.exc, ld)
    ELSE Bind(GetItem(ld.data, kEntries), LAMBDA ent :
    IF ent.exc # "none" THEN Raise(ent.exc, ld)
    ELSE Bind(PyIn(title, ent.val), LAMBDA dup :
    IF dup.exc # "none" THEN Raise(dup.exc, ld)
    ELSE IF dup.val THEN Raise(Conflict, ld)
    ELSE IF ent.val.t # "dict" THEN Raise("TypeError", ld)
    ELSE Bind(save_stufflog(
                  ld.fs, category,
                  DictSet(ld.data, kEntries,
                          DictSet(ent.val, title, new_entry(clock, rating, comment))),
                  e),
              LAMBDA sv : [exc |-> sv.exc, calls |-> ld.calls \o sv.calls,
                           fs |-> sv.fs, result |-> <<>>,
                           io |-> ld.io \o sv.io
                                  \o (IF sv.exc = "none" THEN <<"out">> ELSE <<>>)]))))

\* StufflogApp.add_entry up to the call of save_stufflog: the load, the test
\* for the title and the entry put into the loaded data
add_entry_read(fs, clock, category, title, rating, comment, e) ==
    Bind(load_stufflog(fs, category, e), LAMBDA ld :
    IF ld.exc # "none" THEN [Raise(ld.exc, ld) EXCEPT !.result = PyNone]
    ELSE Bind(GetItem(ld.data, kEntries), LAMBDA ent :
    IF ent.exc # "none" THEN [Raise(ent.exc, ld) EXCEPT !.result = PyNone]
    ELSE Bind(PyIn(title, ent.val), LAMBDA dup :
    IF dup.exc # "none" THEN [Raise(dup.exc, ld) EXCEPT !.result = PyNone]
    ELSE IF dup.val THEN [Raise(Conflict, ld) EXCEPT !.result = PyNone]
    ELSE IF ent.val.t # "dict" THEN [Raise("TypeError", ld) EXCEPT !.result = PyNone]
    ELSE [exc |-> "none", calls |-> ld.calls, fs |-> ld.fs, io |-> ld.io,
          result |-> DictSet(ld.data, kEntries,
                             DictSet(ent.val, title,
                                     new_entry(clock, rating, comment)))])))

\* StufflogApp.add_entry from the call of save_stufflog on, for the data and
\* the record rd that add_entry_read left
add_entry_write(fs, category, rd, e) ==
    Bind(save_stufflog(fs, category, rd.result, e), LAMBDA sv :
    [exc |-> sv.exc, calls |-> rd.calls \o sv.calls, fs |-> sv.fs,
     result |-> <<>>,
     io |-> rd.io \o sv.io \o (IF sv.exc = "none" THEN <<"out">> ELSE <<>>)])

\* StufflogApp.delete_entry
delete_entry(fs, category, title, e) ==
    Bind(load_stufflog(fs, category, e), LAMBDA ld :
    IF ld.exc # "none" THEN Raise(ld.exc, ld)
    ELSE Bind(GetItem(ld.data, kEntries), LAMBDA ent :
    IF ent.exc # "none" THEN Raise(ent.exc, ld)
    ELSE Bind(PyIn(title, ent.val), LAMBDA has :
    IF has.exc # "none" THEN Raise(has.exc, ld)
    ELSE IF ~has.val THEN Raise(NotFoundEntry, ld)
    ELSE IF ent.val.t # "dict" THEN Raise("TypeError", ld)
    ELSE Bind(save_stufflog(ld.fs, category,
                            DictSet(ld.data, kEntries, DictDel(ent.val, title)), e),
              LAMBDA sv : [exc |-> sv.exc, calls |-> ld.calls \o sv.calls,
                           fs |-> sv.fs, result |-> <<>>,
                           io |-> ld.io \o sv.io
                                  \o (IF sv.exc = "none" THEN <<"out">> ELSE <<>>)]))))

\* StufflogApp.init_stufflog; initOutcome is how a needed git init would end
init_stufflog(fs, gd, category, e, initOutcome) ==
    IF exists(fs, get_stufflog_path(category))
    THEN [exc |-> AlreadyExists, calls |-> <<Call("exists", TRUE)>>,
          fs |-> fs, result |-> <<>>, gitDir |-> gd, io |-> <<>>]
    ELSE Bind(save_stufflog(fs, category, empty_stufflog, e), LAMBDA sv :
         IF sv.exc # "none"
         THEN [exc |-> sv.exc, calls |-> <<Call("exists", FALSE)>> \o sv.calls,
               fs |-> sv.fs, result |-> <<>>, gitDir |-> gd, io |-> sv.io]
         ELSE Bind(init(gd, initOutcome), LAMBDA i :
              [exc |-> i.exc,
               calls |-> <<Call("exists", FALSE)>> \o sv.calls
                         \o (IF i.exc = "none" THEN <<Call("init", i.ret)>> ELSE <<>>),
               fs |-> sv.fs, result |-> <<>>, gitDir |-> i.gitDir,
               io |-> sv.io \o <<"out">> \o i.io]))

(***************************************************************************)
(* Query engine.                                                           *)
(***************************************************************************)
kTitle == PyStr(<<"Title">>)

NoFilter == [greater_than |-> PyNone, less_than |-> PyNone,
             after |-> PyNone, before |-> PyNone]

Ok(val) == [exc |-> "none", val |-> val]
Exc(exc) == [exc |-> exc, val |-> FALSE]

\* entry.get("Rating", 0)
RatingOf(entry) ==
    IF entry.t # "dict" THEN Exc("AttributeError")
    ELSE Ok(DictGetDefault(entry, kRating, PyInt(0)))

\* a comparison that lets the boundary through: a < b
PyLeq_strict(a, b) ==
    IF a.t = "int" /\ b.t = "int" THEN [exc |-> "none", val |-> a.n < b.n]
    ELSE [exc |-> "TypeError", val |-> FALSE]

\* a <= b on two Python values
PyLeq(a, b) ==
    IF a.t = "int" /\ b.t = "int" THEN Ok(a.n <= b.n) ELSE Exc("TypeError")

\* entry.get('Rating', 0) <= greater_than, and >= less_than with the sides swapped
RatingExcluded(entry, bound, swap) ==
    Bind(RatingOf(entry), LAMBDA r :
    IF r.exc # "none" THEN r
    ELSE IF swap THEN PyLeq(bound, r.val) ELSE PyLeq(r.val, bound))

\* a <= b on two datetimes: one with and one without a UTC offset do not compare
DatetimeLeq(a, b) ==
    IF a.aware # b.aware THEN Exc("TypeError") ELSE Ok(a.n <= b.n)

\* a date check that leaves out an entry whose Datetime does not parse
DateExcluded_skip(entry, bound, swap) ==
    IF entry.t # "dict" THEN Exc("AttributeError")
    ELSE Bind(fromisoformat(DictGetDefault(entry, kDatetime, PyStr(<<>>))), LAMBDA ed :
         IF ed.exc # "none" THEN Ok(TRUE)
         ELSE Bind(fromisoformat(bound), LAMBDA fd :
              IF fd.exc # "none" THEN Exc(fd.exc)
              ELSE IF swap THEN DatetimeLeq(fd, ed) ELSE DatetimeLeq(ed, fd)))

\* entry_date <= filter_date, and >= with swap; the entry's date is parsed first
DateExcluded(entry, bound, swap) ==
    IF entry.t # "dict" THEN Exc("AttributeError")
    ELSE Bind(fromisoformat(DictGetDefault(entry, kDatetime, PyStr(<<>>))), LAMBDA ed :
         IF ed.exc # "none" THEN Exc(ed.exc)
         ELSE Bind(fromisoformat(bound), LAMBDA fd :
              IF fd.exc # "none" THEN Exc(fd.exc)
              ELSE IF swap THEN DatetimeLeq(fd, ed) ELSE DatetimeLeq(ed, fd)))

\* the body of query_entries' loop up to "if include": whether the entry is kept
Include(entry, f) ==
    Bind(IF f.greater_than = PyNone THEN Ok(FALSE)
         ELSE RatingExcluded(entry, f.greater_than, FALSE), LAMBDA c1 :
    IF c1.exc # "none" THEN c1
    ELSE Bind(IF f.less_than = PyNone THEN Ok(FALSE)
              ELSE RatingExcluded(entry, f.less_than, TRUE), LAMBDA c2 :
    IF c2.exc # "none" THEN c2
    ELSE Bind(IF f.after = PyNone THEN Ok(FALSE)
              ELSE DateExcluded(entry, f.after, FALSE), LAMBDA c3 :
    IF c3.exc # "none" THEN c3
    ELSE Bind(IF f.before = PyNone THEN Ok(FALSE)
              ELSE DateExcluded(entry, f.before, TRUE), LAMBDA c4 :
    IF c4.exc # "none" THEN c4
    ELSE Ok(~(c1.val \/ c2.val \/ c3.val \/ c4.val))))))

\* a result record that is the stored entry as it is, without Title
WithTitle_bare(entry, title) ==
    CASE entry.t = "dict" -> Ok(entry)
      [] entry.t = "list" -> Exc("TypeError")
      [] OTHER -> Exc("AttributeError")

\* entry_copy = entry.copy(); entry_copy["Title"] = title
WithTitle(entry, title) ==
    CASE entry.t = "dict" -> Ok(DictSet(entry, kTitle, title))
      [] entry.t = "list" -> Exc("TypeError")
      [] OTHER -> Exc("AttributeError")

RECURSIVE QueryLoop(_, _, _)
\* the loop of query_entries over data["Entries"].items()
QueryLoop(items, f, acc) ==
    IF Len(items) = 0 THEN Ok(acc)
    ELSE Bind(Include(Head(items).v, f), LAMBDA inc :
         IF inc.exc # "none" THEN inc
         ELSE IF ~inc.val THEN QueryLoop(Tail(items), f, acc)
         ELSE Bind(WithTitle(Head(items).v, Head(items).k), LAMBDA c :
              IF c.exc # "none" THEN c
              ELSE QueryLoop(Tail(items), f, Append(acc, c.val))))

\* data["Entries"].items()
ItemsOf(data) ==
    Bind(GetItem(data, kEntries), LAMBDA ent :
    IF ent.exc # "none" THEN ent
    ELSE IF ent.val.t # "dict" THEN Exc("AttributeError")
    ELSE Ok(ent.val.items))

\* StufflogApp.query_entries
query_entries(fs, category, f, e) ==
    Bind(load_stufflog(fs, category, e), LAMBDA ld :
    IF ld.exc # "none" THEN Raise(ld.exc, ld)
    ELSE Bind(ItemsOf(ld.data), LAMBDA its :
    IF its.exc # "none" THEN Raise(its.exc, ld)
    ELSE Bind(QueryLoop(its.val, f, <<>>), LAMBDA r :
    IF r.exc # "none" THEN Raise(r.exc, ld)
    ELSE [exc |-> "none", calls |-> ld.calls, fs |-> ld.fs, result |-> r.val,
          io |-> ld.io])))

\* the body of search_entries' loop: whether the entry matches the lowered term
Matches(title, entry, term) ==
    IF title.t # "str" THEN Exc("AttributeError")
    ELSE Bind(Contains(lower(title.s), term), LAMBDA title_match :
         Bind(PyIn(kComment, entry), LAMBDA hasComment :
         IF hasComment.exc # "none" THEN hasComment
         ELSE IF ~hasComment.val THEN Ok(title_match)
         ELSE Bind(GetItem(entry, kComment), LAMBDA c :
              IF c.exc # "none" THEN c
              ELSE IF c.val.t # "str" THEN Exc("AttributeError")
              ELSE Ok(title_match \/ Contains(lower(c.val.s), term)))))

RECURSIVE SearchLoop(_, _, _)
\* the loop of search_entries over data["Entries"].items()
SearchLoop(items, term, acc) ==
    IF Len(items) = 0 THEN Ok(acc)
    ELSE Bind(Matches(Head(items).k, Head(items).v, term), LAMBDA m :
         IF m.exc # "none" THEN m
         ELSE IF ~m.val THEN SearchLoop(Tail(items), term, acc)
         ELSE Bind(WithTitle(Head(items).v, Head(items).k), LAMBDA c :
              IF c.exc # "none" THEN c
              ELSE SearchLoop(Tail(items), term, Append(acc, c.val))))

\* StufflogApp.search_entries
search_entries(fs, category, search_term, e) ==
    Bind(load_stufflog(fs, category, e), LAMBDA ld :
    IF ld.exc # "none" THEN Raise(ld.exc, ld)
    ELSE Bind(ItemsOf(ld.data), LAMBDA its :
    IF its.exc # "none" THEN Raise(its.exc, ld)
    ELSE Bind(SearchLoop(its.val, lower(search_term), <<>>), LAMBDA r :
    IF r.exc # "none" THEN Raise(r.exc, ld)
    ELSE [exc |-> "none", calls |-> ld.calls, fs |-> ld.fs, result |-> r.val,
          io |-> ld.io])))

RECURSIVE TitledEntries(_, _)
\* [{**entry, "Title": title} for title, entry in data["Entries"].items()]
TitledEntries(items, acc) ==
    IF Len(items) = 0 THEN Ok(acc)
    ELSE IF Head(items).v.t # "dict" THEN Exc("TypeError")
    ELSE TitledEntries(Tail(items),
                       Append(acc, DictSet(Head(items).v, kTitle, Head(items).k)))

\* DefaultCommandStrategy.execute: display every entry of the category
display_all(fs, category, e) ==
    Bind(load_stufflog(fs, category, e), LAMBDA ld :
    IF ld.exc # "none" THEN Raise(ld.exc, ld)
    ELSE Bind(ItemsOf(ld.data), LAMBDA its :
    IF its.exc # "none" THEN Raise(its.exc, ld)
    ELSE Bind(TitledEntries(its.val, <<>>), LAMBDA r :
    IF r.exc # "none" THEN Raise(r.exc, ld)
    ELSE [exc |-> "none", calls |-> ld.calls, fs |-> ld.fs, result |-> r.val,
          io |-> ld.io])))

(***************************************************************************)
(* The command line: the strategy of each command and main around it.      *)
(* io is the sequence of messages printed, each on "out" or on "err".      *)
(***************************************************************************)
RECURSIVE EntryLines(_)
\* the loop of display_entries: title, Datetime, Rating, Comment if the entry
\* has one, and an empty line
EntryLines(entries) ==
    IF Len(entries) = 0 THEN <<>>
    ELSE <<"out", "out", "out">>
         \o (IF DictHas(Head(entries), kComment) THEN <<"out">> ELSE <<>>)
         \o <<"out">>
         \o EntryLines(Tail(entries))

\* StufflogApp.display_entries
display_entries(entries) ==
    IF Len(entries) = 0 THEN <<"out">>
    ELSE <<"out", "out">> \o EntryLines(entries)

\* the exceptions of class StufflogError
StufflogErrors == {NotFoundCategory, NotFoundEntry, Conflict, AlreadyExists, LoadError}

\* CommandStrategy.execute of the command op, r being what the operation it
\* calls did: the exception that leaves execute, the code it returns, and the
\* messages printed so far
execute(op, r) ==
    IF op = "display" /\ r.exc \in StufflogErrors
    THEN [exc |-> "none", code |-> 1, io |-> Append(r.io, "err")]
    ELSE IF r.exc # "none" THEN [exc |-> r.exc, code |-> 1, io |-> r.io]
    ELSE CASE op \in {"init", "add", "delete"} ->
                [exc |-> "none", code |-> 0, io |-> r.io]
           [] op \in {"query", "search", "display"} ->
                [exc |-> "none", code |-> 0, io |-> r.io \o display_entries(r.result)]
           [] op = "git init" ->
                IF r.ret THEN [exc |-> "none", code |-> 0, io |-> Append(r.io, "out")]
                ELSE [exc |-> "none", code |-> 1, io |-> Append(r.io, "err")]
           [] op = "git remote" ->
                [exc |-> "none", code |-> IF r.ret THEN 0 ELSE 1, io |-> r.io]

\* a main that catches StufflogError only: any other exception leaves main
\* and ends the process with a traceback
main_domain_only(x) ==
    IF x.exc = "none" THEN [code |-> x.code, io |-> x.io, traceback |-> FALSE]
    ELSE IF x.exc \in StufflogErrors
    THEN [code |-> 1, io |-> Append(x.io, "err"), traceback |-> FALSE]
    ELSE [code |-> 1, io |-> Append(x.io, "err"), traceback |-> TRUE]

\* main: the try block around the command; x is what execute gave.  The
\* message of a StufflogError is printed as it is, that of any other
\* exception after "Error: ".
main(x) ==
    IF x.exc = "none" THEN [code |-> x.code, io |-> x.io, traceback |-> FALSE]
    ELSE IF x.exc \in StufflogErrors
    THEN [code |-> 1, io |-> Append(x.io, "err"), traceback |-> FALSE]
    ELSE [code |-> 1, io |-> Append(x.io, "err"), traceback |-> FALSE]

(***************************************************************************)
(* Inputs explored.                                                        *)
(***************************************************************************)
Categories == {<<"b">>, <<"b", ".yml">>, <<"m">>}
Paths == {get_stufflog_path(c) : c \in Categories}
Titles == {<<"d">>, <<"D">>}
\* the (title, rating, comment) arguments given to add
AddArgs ==
    {<<(<<"d">>), PyInt(5), PyStr(<<"D">>)>>,
     <<(<<"d">>), PyInt(3), PyNone>>,
     <<(<<"D">>), PyInt(3), PyStr(<<>>)>>,
     <<(<<"D">>), PyInt(5), PyNone>>}
Filters ==
    {NoFilter,
     [NoFilter EXCEPT !.greater_than = PyInt(3)],
     [NoFilter EXCEPT !.after = PyStr(isoformat(1))]}
SearchTerms == {<<>>, <<"D">>}

(***************************************************************************)
(* The commands.  A command runs in a process of its own: it starts when   *)
(* no command is running (last.op = "none"), and the process exits before  *)
(* the next command starts.                                                *)
(***************************************************************************)
\* the invocations that may run concurrently, and an invocation not started
Invocations == {1, 2}

NotStarted ==
    [pc |-> "start", title |-> PyNone, rating |-> PyNone, comment |-> PyNone,
     data |-> PyNone, exc |-> "none", calls |-> <<>>, io |-> <<>>]

NoProcs == [i \in Invocations |-> NotStarted]

NoLast ==
    [op |-> "none", cat |-> <<>>, title |-> PyNone, rating |-> PyNone,
     comment |-> PyNone, filter |-> NoFilter, term |-> <<>>, arg |-> PyNone,
     exc |-> "none", calls |-> <<>>, result |-> <<>>, code |-> 0, io |-> <<>>,
     traceback |-> FALSE]

Init ==
    /\ files = [p \in Paths |-> Absent]
    /\ gitDir = FALSE
    /\ remotes = FALSE
    /\ now = 1
    /\ last = NoLast
    /\ live = [p \in Paths |-> {}]
    /\ gone = [p \in Paths |-> {}]
    /\ procs = NoProcs

Idle == last.op = "none"

Done(op, category, r) ==
    [NoLast EXCEPT !.op = op, !.cat = category,
                   !.exc = r.exc, !.calls = r.calls, !.result = r.result,
                   !.code = main(execute(op, r)).code,
                   !.io = main(execute(op, r)).io,
                   !.traceback = main(execute(op, r)).traceback]

\* stufflog <category> init, in one of the environments envs
InitStep(category, envs, outcomes) ==
    /\ Idle
    /\ \E e \in envs, o \in outcomes :
        \E r \in {init_stufflog(files, gitDir, category, e, o)} :
            /\ files' = r.fs
            /\ gitDir' = r.gitDir
            /\ last' = Done("init", category, r)
            /\ UNCHANGED <<remotes, now, live, gone, procs>>

InitCmd(category) == InitStep(category, GitEnvs(gitDir, remotes), InitOutcomes)

\* stufflog <category> add <title> <rating> [comment]
AddStep(category, title, rating, comment, envs) ==
    /\ Idle
    /\ \E e \in envs :
        \E r \in {add_entry(files, now, category, PyStr(title), rating, comment, e)} :
        LET p == get_stufflog_path(category) IN
            /\ r.exc = "none" => now <= MaxClock
            /\ files' = r.fs
            /\ now' = IF r.exc = "none" THEN now + 1 ELSE now
            /\ last' = [Done("add", category, r) EXCEPT
                           !.title = PyStr(title), !.rating = rating,
                           !.comment = comment]
            /\ live' = IF r.exc = "none"
                       THEN [live EXCEPT ![p] = @ \cup {title}] ELSE live
            /\ gone' = IF r.exc = "none"
                       THEN [gone EXCEPT ![p] = @ \ {title}] ELSE gone
            /\ UNCHANGED <<gitDir, remotes, procs>>

AddCmd(category, title, rating, comment) ==
    AddStep(category, title, rating, comment, GitEnvs(gitDir, remotes))

\* stufflog <category> delete <title>
DeleteStep(category, title, envs) ==
    /\ Idle
    /\ \E e \in envs :
        \E r \in {delete_entry(files, category, PyStr(title), e)} :
        LET p == get_stufflog_path(category) IN
            /\ files' = r.fs
            /\ last' = [Done("delete", category, r) EXCEPT !.title = PyStr(title)]
            /\ live' = IF r.exc = "none"
                       THEN [live EXCEPT ![p] = @ \ {title}] ELSE live
            /\ gone' = IF r.exc = "none"
                       THEN [gone EXCEPT ![p] = @ \cup {title}] ELSE gone
            /\ UNCHANGED <<gitDir, remotes, now, procs>>

DeleteCmd(category, title) == DeleteStep(category, title, GitEnvs(gitDir, remotes))

\* stufflog <category> query [--greater-than N] [--less-than N] [--after D] [--before D]
QueryStep(category, f, envs) ==
    /\ Idle
    /\ \E e \in envs :
        \E r \in {query_entries(files, category, f, e)} :
            /\ files' = r.fs
            /\ last' = [Done("query", category, r) EXCEPT !.filter = f]
            /\ UNCHANGED <<gitDir, remotes, now, live, gone, procs>>

QueryCmd(category, f) == QueryStep(category, f, GitEnvs(gitDir, remotes))

\* stufflog <category> search <term>
SearchStep(category, term, envs) ==
    /\ Idle
    /\ \E e \in envs :
        \E r \in {search_entries(files, category, term, e)} :
            /\ files' = r.fs
            /\ last' = [Done("search", category, r) EXCEPT !.term = term]
            /\ UNCHANGED <<gitDir, remotes, now, live, gone, procs>>

SearchCmd(category, term) == SearchStep(category, term, GitEnvs(gitDir, remotes))

\* stufflog <category>
DisplayStep(category, envs) ==
    /\ Idle
    /\ \E e \in envs :
        \E r \in {display_all(files, category, e)} :
            /\ files' = r.fs
            /\ last' = Done("display", category, r)
            /\ UNCHANGED <<gitDir, remotes, now, live, gone, procs>>

DisplayCmd(category) == DisplayStep(category, GitEnvs(gitDir, remotes))

\* stufflog git init
GitInitStep(outcomes) ==
    /\ Idle
    /\ \E o \in outcomes :
        \E i \in {init(gitDir, o)} :
            /\ gitDir' = i.gitDir
            /\ last' = Done("git init", <<>>,
                            [exc |-> i.exc, ret |-> i.ret, io |-> i.io, result |-> <<>>,
                             calls |-> IF i.exc = "none"
                                       THEN <<Call("init", i.ret)>> ELSE <<>>])
            /\ UNCHANGED <<files, remotes, now, live, gone, procs>>

GitInitCmd == GitInitStep(InitOutcomes)

\* stufflog git remote <url>
GitRemoteStep(outcomes) ==
    /\ Idle
    /\ \E o \in outcomes, addOk \in BOOLEAN :
        \E r \in {setup_remote(gitDir, remotes, o, addOk)} :
            /\ gitDir' = r.gitDir
            /\ remotes' = r.remotes
            /\ last' = Done("git remote", <<>>,
                            [exc |-> r.exc, ret |-> r.ret, io |-> r.io, result |-> <<>>,
                             calls |-> IF r.exc = "none"
                                       THEN <<Call("setup_remote", r.ret)>> ELSE <<>>])
            /\ UNCHANGED <<files, now, live, gone, procs>>

GitRemoteCmd == GitRemoteStep(InitOutcomes)

\* the process exits
Exit ==
    /\ ~Idle
    /\ last' = NoLast
    /\ UNCHANGED <<files, gitDir, remotes, now, live, gone, procs>>

Next ==
    \/ \E c \in Categories : InitCmd(c)
    \/ \E c \in Categories, a \in AddArgs : AddCmd(c, a[1], a[2], a[3])
    \/ \E c \in Categories, t \in Titles : DeleteCmd(c, t)
    \/ \E c \in Categories, f \in Filters : QueryCmd(c, f)
    \/ \E c \in Categories, t \in SearchTerms : SearchCmd(c, t)
    \/ \E c \in Categories : DisplayCmd(c)
    \/ GitInitCmd
    \/ GitRemoteCmd
    \/ Exit

Spec == Init /\ [][Next]_vars

(***************************************************************************)
(* The commands on a machine where git may fail to launch: subprocess.run  *)
(* then raises FileNotFoundError, which GitService does not catch.         *)
(***************************************************************************)
FaultCategory == <<"b">>

NextFault ==
    \/ InitStep(FaultCategory, GitFaultEnvs(gitDir, remotes), InitFaultOutcomes)
    \/ \E rating \in {PyInt(3), PyInt(5)} :
          AddStep(FaultCategory, <<"d">>, rating, PyNone,
                  GitFaultEnvs(gitDir, remotes))
    \/ DeleteStep(FaultCategory, <<"d">>, GitFaultEnvs(gitDir, remotes))
    \/ QueryStep(FaultCategory, NoFilter, GitFaultEnvs(gitDir, remotes))
    \/ SearchStep(FaultCategory, <<"D">>, GitFaultEnvs(gitDir, remotes))
    \/ DisplayStep(FaultCategory, GitFaultEnvs(gitDir, remotes))
    \/ GitInitStep(InitFaultOutcomes)
    \/ GitRemoteStep(InitFaultOutcomes)
    \/ Exit

SpecFault == Init /\ [][NextFault]_vars

(***************************************************************************)
(* The entry store on its own: FileService.save_stufflog and               *)
(* FileService.load_stufflog applied to drawn values and drawn file        *)
(* contents.                                                               *)
(***************************************************************************)
StoreNames == {<<"b">>, <<"b", ".yml">>}
StoreTitles == {<<"d">>, <<"D">>, <<"7">>}
StoreEntries ==
    {new_entry(1, PyInt(5), PyStr(<<"7">>)), new_entry(2, PyInt(-3), PyNone)}
StoreItems == {[k |-> PyStr(t), v |-> en] : t \in StoreTitles, en \in StoreEntries}

\* the entry mappings of at most MaxStoreEntries entries, in every order
StoreMappings ==
    {PyDict(items) :
        items \in {s \in UNION {[1..n -> StoreItems] : n \in 0..MaxStoreEntries} :
                      \A i, j \in DOMAIN s : i # j => s[i].k # s[j].k}}

\* the valid stufflog values
StoreValues == {PyDict(<<[k |-> kEntries, v |-> m]>>) : m \in StoreMappings}

\* file contents the program did not write: a missing file, a zero-byte file,
\* text that is no YAML, and documents of other shapes
ForeignContents ==
    {Absent, EmptyFile, Garbage,
     Doc(Scalar("plain", <<"d">>)),
     Doc(SeqNode(<<Scalar("plain", <<"d">>)>>)),
     Doc(MapNode(<<[k |-> Scalar("plain", <<"d">>), v |-> Scalar("plain", <<"5">>)]>>)),
     Doc(MapNode(<<[k |-> Scalar("plain", <<"Entries">>), v |-> Scalar("plain", <<"null">>)]>>))}

InitStore ==
    /\ files \in {f \in [Paths -> ForeignContents] :
                    \A p \in Paths : p \notin {get_stufflog_path(n) : n \in StoreNames}
                                        => f[p] = Absent}
    /\ gitDir = FALSE
    /\ remotes = FALSE
    /\ now = 1
    /\ last = NoLast
    /\ live = [p \in Paths |-> {}]
    /\ gone = [p \in Paths |-> {}]
    /\ procs = NoProcs

\* FileService.save_stufflog(name, data)
StoreSave(name, data) ==
    /\ Idle
    /\ files' = FileService_save_stufflog(files, name, data)
    /\ last' = [NoLast EXCEPT !.op = "store_save", !.cat = name, !.arg = data]
    /\ UNCHANGED <<gitDir, remotes, now, live, gone, procs>>

\* FileService.load_stufflog(name); arg keeps the value the preceding call
\* saved under the same name, if that call was a save
StoreLoad(name) ==
    /\ Idle \/ last.op = "store_save"
    /\ \E r \in {FileService_load_stufflog(files, name)} :
        /\ files' = r.fs
        /\ last' = [NoLast EXCEPT
                        !.op = "store_load", !.cat = name, !.exc = r.exc,
                        !.result = IF r.exc = "none" THEN <<r.val>> ELSE <<>>,
                        !.arg = IF last.op = "store_save" /\ last.cat = name
                                THEN last.arg ELSE PyNone]
    /\ UNCHANGED <<gitDir, remotes, now, live, gone, procs>>

NextStore ==
    \/ \E n \in StoreNames, d \in StoreValues : StoreSave(n, d)
    \/ \E n \in StoreNames : StoreLoad(n)
    \/ Exit

SpecStore == InitStore /\ [][NextStore]_vars

(***************************************************************************)
(* The order of the entries: add, delete, query and search on one category *)
(* that already holds two entries, stored in either order.                 *)
(***************************************************************************)
OrderCategory == <<"b">>

\* the stores of two entries added at instant 0, in both orders
OrderStores ==
    {PyDict(<<[k |-> kEntries,
               v |-> PyDict(<<[k |-> PyStr(ts[1]), v |-> new_entry(0, PyInt(3), PyNone)],
                              [k |-> PyStr(ts[2]), v |-> new_entry(0, PyInt(5), PyNone)]>>)]>>) :
        ts \in {<<(<<"d">>), (<<"D">>)>>, <<(<<"D">>), (<<"d">>)>>}}

InitOrder ==
    /\ \E st \in OrderStores :
          files = [p \in Paths |-> IF p = get_stufflog_path(OrderCategory)
                                   THEN yaml_dump(st) ELSE Absent]
    /\ gitDir = FALSE
    /\ remotes = FALSE
    /\ now = 1
    /\ last = NoLast
    /\ live = [p \in Paths |-> IF p = get_stufflog_path(OrderCategory)
                               THEN Titles ELSE {}]
    /\ gone = [p \in Paths |-> {}]
    /\ procs = NoProcs

NextOrder ==
    \/ \E a \in AddArgs : AddCmd(OrderCategory, a[1], a[2], a[3])
    \/ \E t \in Titles : DeleteCmd(OrderCategory, t)
    \/ \E f \in Filters : QueryCmd(OrderCategory, f)
    \/ \E t \in SearchTerms : SearchCmd(OrderCategory, t)
    \/ Exit

SpecOrder == InitOrder /\ [][NextOrder]_vars

(***************************************************************************)
(* The query engine on its own: query, search and display applied to       *)
(* stores drawn from a bounded set, under a wider set of filters and       *)
(* terms.                                                                  *)
(***************************************************************************)
QueryCategory == <<"b">>
QueryTitles == {<<"d">>, <<"D">>, <<"7">>}

\* entries as add writes them, and one whose Rating is missing
QueryEntries ==
    {new_entry(1, PyInt(3), PyNone),
     new_entry(2, PyInt(5), PyStr(<<"D">>)),
     PyDict(<<[k |-> kDatetime, v |-> PyStr(isoformat(2))],
              [k |-> kComment, v |-> PyStr(<<"d", "7">>)]>>)}

QueryItems == {[k |-> PyStr(t), v |-> en] : t \in QueryTitles, en \in QueryEntries}

QueryStores ==
    {PyDict(<<[k |-> kEntries, v |-> PyDict(items)]>>) :
        items \in {s \in UNION {[1..n -> QueryItems] : n \in 0..MaxQueryEntries} :
                      \A i, j \in DOMAIN s : i # j => s[i].k # s[j].k}}

\* --after given as the instant 1, as the same instant written otherwise, and
\* as that instant with a UTC offset
QueryAfters ==
    {PyNone, PyStr(isoformat(1)), PyStr(<<"T", "0", "1">>),
     PyStr(isoformat(1) \o <<Offset>>)}

QueryFilters ==
    {[greater_than |-> g, less_than |-> l, after |-> a, before |-> b] :
        g \in {PyNone, PyInt(3)}, l \in {PyNone, PyInt(5), PyInt(1)},
        a \in QueryAfters, b \in {PyNone, PyStr(isoformat(2))}}

QueryTerms == {<<>>, <<"d">>, <<"D">>, <<"7">>}

InitQuery ==
    /\ \E st \in QueryStores :
          files = [p \in Paths |-> IF p = get_stufflog_path(QueryCategory)
                                   THEN yaml_dump(st) ELSE Absent]
    /\ gitDir = FALSE
    /\ remotes = FALSE
    /\ now = 1
    /\ last = NoLast
    /\ live = [p \in Paths |-> {}]
    /\ gone = [p \in Paths |-> {}]
    /\ procs = NoProcs

NextQuery ==
    \/ \E f \in QueryFilters : QueryCmd(QueryCategory, f)
    \/ \E t \in QueryTerms : SearchCmd(QueryCategory, t)
    \/ DisplayCmd(QueryCategory)
    \/ Exit

SpecQuery == InitQuery /\ [][NextQuery]_vars

(***************************************************************************)
(* Date parsing: queries on stores whose Datetime fields may be missing or *)
(* malformed, with date bounds that may not parse.                         *)
(***************************************************************************)
\* an entry as add writes it, one whose Datetime is no timestamp, one without
\* Datetime, and one whose Datetime is a number
ParseEntries ==
    {new_entry(1, PyInt(3), PyNone),
     PyDict(<<[k |-> kDatetime, v |-> PyStr(<<"d">>)], [k |-> kRating, v |-> PyInt(5)]>>),
     PyDict(<<[k |-> kRating, v |-> PyInt(1)]>>),
     PyDict(<<[k |-> kDatetime, v |-> PyInt(5)], [k |-> kRating, v |-> PyInt(3)]>>)}

ParseItems == {[k |-> PyStr(t), v |-> en] : t \in Titles, en \in ParseEntries}

ParseStores ==
    {PyDict(<<[k |-> kEntries, v |-> PyDict(items)]>>) :
        items \in {s \in UNION {[1..n -> ParseItems] : n \in 0..MaxQueryEntries} :
                      \A i, j \in DOMAIN s : i # j => s[i].k # s[j].k}}

\* no bound, a timestamp, the same with a UTC offset, and text that is no
\* timestamp
ParseBounds ==
    {PyNone, PyStr(isoformat(1)), PyStr(isoformat(1) \o <<Offset>>), PyStr(<<"d">>)}

ParseFilters ==
    {[greater_than |-> g, less_than |-> PyNone, after |-> a, before |-> b] :
        g \in {PyNone, PyInt(3)}, a \in ParseBounds, b \in ParseBounds}

InitParse ==
    /\ \E st \in ParseStores :
          files = [p \in Paths |-> IF p = get_stufflog_path(QueryCategory)
                                   THEN yaml_dump(st) ELSE Absent]
    /\ gitDir = FALSE
    /\ remotes = FALSE
    /\ now = 1
    /\ last = NoLast
    /\ live = [p \in Paths |-> {}]
    /\ gone = [p \in Paths |-> {}]
    /\ procs = NoProcs

NextParse ==
    \/ \E f \in ParseFilters : QueryCmd(QueryCategory, f)
    \/ Exit

SpecParse == InitParse /\ [][NextParse]_vars

(***************************************************************************)
(* The single-file revision of StufflogApp (src/stufflog.py), which reads  *)
(* and writes the backing file itself.  Its operations are given the same  *)
(* GitService as those of the package revision and yield the same kind of  *)
(* record; "exists", "load" and "save" in calls stand for its own          *)
(* file_path.exists(), open(file_path, "r") and open(file_path, "w").      *)
(***************************************************************************)
ParseError == "StufflogError: error parsing YAML file"

\* StufflogApp.get_stufflog_path of the single-file revision
script_get_stufflog_path(category) == category \o YmlExt

\* StufflogApp.load_stufflog of the single-file revision
script_load_stufflog(fs, category, e) ==
    IF e.fault = "hr1"
    THEN [exc |-> LaunchError, calls |-> <<>>, data |-> PyNone, fs |-> fs,
          io |-> <<>>]
    ELSE IF e.hr1 /\ e.fault = "pull"
    THEN [exc |-> LaunchError, calls |-> <<Call("has_remotes", TRUE)>>,
          data |-> PyNone, fs |-> fs, io |-> <<>>]
    ELSE Bind([calls |-> <<Call("has_remotes", e.hr1)>>
                         \o (IF e.hr1 THEN <<Call("pull", e.pull)>> ELSE <<>>)
                         \o <<Call("exists",
                                   fs[script_get_stufflog_path(category)].kind
                                       # "absent")>>,
               io |-> IF e.hr1 THEN e.pullIo ELSE <<>>],
              LAMBDA pulled :
         IF ~pulled.calls[Len(pulled.calls)].ret
         THEN [exc |-> NotFoundCategory, calls |-> pulled.calls, data |-> PyNone,
               fs |-> fs, io |-> pulled.io]
         ELSE Bind(yaml_safe_load(fs[script_get_stufflog_path(category)]),
                   LAMBDA loaded :
              IF loaded.exc = "YAMLError"
              THEN [exc |-> ParseError,
                    calls |-> Append(pulled.calls, Call("load", FALSE)),
                    data |-> PyNone, fs |-> fs, io |-> pulled.io]
              ELSE Bind(EnsureEntries(IF Truthy(loaded.val) THEN loaded.val
                                      ELSE EmptyDict),
                        LAMBDA r :
                   [exc |-> r.exc,
                    calls |-> Append(pulled.calls, Call("load", r.exc = "none")),
                    data |-> r.val, fs |-> fs, io |-> pulled.io])))

\* a save of a revision without the push
script_save_stufflog_local(fs, category, data, e) ==
    [exc |-> "none",
     fs |-> [fs EXCEPT ![script_get_stufflog_path(category)] = yaml_dump(data)],
     calls |-> <<Call("save", TRUE)>>, io |-> <<>>]

\* StufflogApp.save_stufflog of the single-file revision
script_save_stufflog(fs, category, data, e) ==
    Bind([fs EXCEPT ![script_get_stufflog_path(category)] = yaml_dump(data)],
         LAMBDA written :
    IF e.fault = "hr2"
    THEN [exc |-> LaunchError, fs |-> written, calls |-> <<Call("save", TRUE)>>,
          io |-> <<>>]
    ELSE IF e.hr2 /\ e.fault = "push"
    THEN [exc |-> LaunchError, fs |-> written,
          calls |-> <<Call("save", TRUE), Call("has_remotes", TRUE)>>,
          io |-> <<>>]
    ELSE [exc |-> "none", fs |-> written,
          calls |-> <<Call("save", TRUE), Call("has_remotes", e.hr2)>>
                    \o (IF e.hr2 THEN <<Call("push", e.push)>> ELSE <<>>),
          io |-> IF e.hr2 THEN e.pushIo ELSE <<>>])

\* StufflogApp.delete_entry of the single-file revision
script_delete_entry(fs, category, title, e) ==
    Bind(script_load_stufflog(fs, category, e), LAMBDA ld :
    IF ld.exc # "none" THEN Raise(ld.exc, ld)
    ELSE Bind(GetItem(ld.data, kEntries), LAMBDA ent :
    IF ent.exc # "none" THEN Raise(ent.exc, ld)
    ELSE Bind(PyIn(title, ent.val), LAMBDA has :
    IF has.exc # "none" THEN Raise(has.exc, ld)
    ELSE IF ~has.val THEN Raise(NotFoundEntry, ld)
    ELSE IF ent.val.t # "dict" THEN Raise("TypeError", ld)
    ELSE Bind(script_save_stufflog(
                  fs, category,
                  DictSet(ld.data, kEntries, DictDel(ent.val, title)), e),
              LAMBDA sv : [exc |-> sv.exc, calls |-> ld.calls \o sv.calls,
                           fs |-> sv.fs, result |-> <<>>,
                           io |-> ld.io \o sv.io
                                  \o (IF sv.exc = "none" THEN <<"out">> ELSE <<>>)]))))

\* StufflogApp.query_entries of the single-file revision, its four keyword
\* arguments given as the record f
script_query_entries(fs, category, f, e) ==
    Bind(script_load_stufflog(fs, category, e), LAMBDA ld :
    IF ld.exc # "none" THEN Raise(ld.exc, ld)
    ELSE Bind(ItemsOf(ld.data), LAMBDA its :
    IF its.exc # "none" THEN Raise(its.exc, ld)
    ELSE Bind(QueryLoop(its.val, f, <<>>), LAMBDA r :
    IF r.exc # "none" THEN Raise(r.exc, ld)
    ELSE [exc |-> "none", calls |-> ld.calls, fs |-> ld.fs, result |-> r.val,
          io |-> ld.io])))

\* StufflogApp.search_entries of the single-file revision
script_search_entries(fs, category, search_term, e) ==
    Bind(script_load_stufflog(fs, category, e), LAMBDA ld :
    IF ld.exc # "none" THEN Raise(ld.exc, ld)
    ELSE Bind(ItemsOf(ld.data), LAMBDA its :
    IF its.exc # "none" THEN Raise(its.exc, ld)
    ELSE Bind(SearchLoop(its.val, lower(search_term), <<>>), LAMBDA r :
    IF r.exc # "none" THEN Raise(r.exc, ld)
    ELSE [exc |-> "none", calls |-> ld.calls, fs |-> ld.fs, result |-> r.val,
          io |-> ld.io])))

\* StufflogApp.init_stufflog of the single-file revision
script_init_stufflog(fs, gd, category, e, initOutcome) ==
    IF fs[script_get_stufflog_path(category)].kind # "absent"
    THEN [exc |-> AlreadyExists, calls |-> <<Call("exists", TRUE)>>,
          fs |-> fs, result |-> <<>>, gitDir |-> gd, io |-> <<>>]
    ELSE Bind(script_save_stufflog(
                  fs, category, PyDict(<<[k |-> kEntries, v |-> EmptyDict]>>), e),
              LAMBDA sv :
         IF sv.exc # "none"
         THEN [exc |-> sv.exc, calls |-> <<Call("exists", FALSE)>> \o sv.calls,
               fs |-> sv.fs, result |-> <<>>, gitDir |-> gd, io |-> sv.io]
         ELSE Bind(init(gd, initOutcome), LAMBDA i :
              [exc |-> i.exc,
               calls |-> <<Call("exists", FALSE)>> \o sv.calls
                         \o (IF i.exc = "none" THEN <<Call("init", i.ret)>> ELSE <<>>),
               fs |-> sv.fs, result |-> <<>>, gitDir |-> i.gitDir,
               io |-> sv.io \o <<"out">> \o i.io]))

\* StufflogApp.add_entry of the single-file revision
script_add_entry(fs, clock, category, title, rating, comment, e) ==
    Bind(script_load_stufflog(fs, category, e), LAMBDA ld :
    IF ld.exc # "none" THEN Raise(ld.exc, ld)
    ELSE Bind(GetItem(ld.data, kEntries), LAMBDA ent :
    IF ent.exc # "none" THEN Raise(ent.exc, ld)
    ELSE Bind(PyIn(title, ent.val), LAMBDA dup :
    IF dup.exc # "none" THEN Raise(dup.exc, ld)
    ELSE IF dup.val THEN Raise(Conflict, ld)
    ELSE IF ent.val.t # "dict" THEN Raise("TypeError", ld)
    ELSE Bind(script_save_stufflog(
                  fs, category,
                  DictSet(ld.data, kEntries,
                          DictSet(ent.val, title,
                                  IF Truthy(comment)
                                  THEN PyDict(<<[k |-> kDatetime,
                                                 v |-> PyStr(isoformat(clock))],
                                                [k |-> kRating, v |-> rating],
                                                [k |-> kComment, v |-> comment]>>)
                                  ELSE PyDict(<<[k |-> kDatetime,
                                                 v |-> PyStr(isoformat(clock))],
                                                [k |-> kRating, v |-> rating]>>))),
                  e),
              LAMBDA sv : [exc |-> sv.exc, calls |-> ld.calls \o sv.calls,
                           fs |-> sv.fs, result |-> <<>>,
                           io |-> ld.io \o sv.io
                                  \o (IF sv.exc = "none" THEN <<"out">> ELSE <<>>)]))))

(***************************************************************************)
(* The commands of the package revision on one category, on a machine      *)
(* with or without git; the category starts missing or as an empty file.   *)
(***************************************************************************)
RevisionCategory == <<"b">>

InitRevisions ==
    /\ \E content \in {Absent, EmptyFile} :
          files = [p \in Paths |->
                      IF p = get_stufflog_path(RevisionCategory)
                      THEN content ELSE Absent]
    /\ gitDir = FALSE
    /\ remotes = FALSE
    /\ now = 1
    /\ last = NoLast
    /\ live = [p \in Paths |-> {}]
    /\ gone = [p \in Paths |-> {}]
    /\ procs = NoProcs

NextRevisions ==
    \/ InitCmd(RevisionCategory)
    \/ \E a \in AddArgs : AddCmd(RevisionCategory, a[1], a[2], a[3])
    \/ \E t \in Titles : DeleteCmd(RevisionCategory, t)
    \/ GitInitCmd
    \/ GitRemoteCmd
    \/ Exit

SpecRevisions == InitRevisions /\ [][NextRevisions]_vars

(***************************************************************************)
(* Two invocations of add on one category at the same time.  Each is a     *)
(* process of its own with its own copy of the loaded data; add_entry      *)
(* reads the backing file in load_stufflog and writes it in save_stufflog, *)
(* no lock is taken on the file, and the steps of one invocation may fall  *)
(* between the read and the write of the other.                            *)
(***************************************************************************)
RaceCategory == <<"b">>

InitRace ==
    /\ files = [p \in Paths |->
                   IF p = get_stufflog_path(RaceCategory)
                   THEN yaml_dump(empty_stufflog) ELSE Absent]
    /\ gitDir = FALSE
    /\ remotes = FALSE
    /\ now = 1
    /\ last = NoLast
    /\ live = [p \in Paths |-> {}]
    /\ gone = [p \in Paths |-> {}]
    /\ procs = NoProcs

\* invocation i runs add_entry up to the call of save_stufflog
RaceRead(i, title, rating, comment) ==
    /\ procs[i].pc = "start"
    /\ \E e \in GitEnvs(gitDir, remotes) :
        \E rd \in {add_entry_read(files, now, RaceCategory, PyStr(title),
                                  rating, comment, e)} :
            /\ rd.exc = "none" => now <= MaxClock
            /\ files' = rd.fs
            /\ now' = IF rd.exc = "none" THEN now + 1 ELSE now
            /\ procs' = [procs EXCEPT ![i] =
                            [pc |-> IF rd.exc = "none" THEN "loaded" ELSE "exited",
                             title |-> PyStr(title), rating |-> rating,
                             comment |-> comment, data |-> rd.result,
                             exc |-> rd.exc, calls |-> rd.calls, io |-> rd.io]]
            /\ last' = IF rd.exc = "none" THEN last
                       ELSE [Done("add", RaceCategory,
                                  [rd EXCEPT !.result = <<>>]) EXCEPT
                                !.title = PyStr(title), !.rating = rating,
                                !.comment = comment, !.arg = PyInt(i)]
            /\ UNCHANGED <<gitDir, remotes, live, gone>>

\* invocation i runs the rest of add_entry: save_stufflog and the message
RaceWrite(i) ==
    /\ procs[i].pc = "loaded"
    /\ \E e \in GitEnvs(gitDir, remotes) :
        \E wr \in {add_entry_write(files, RaceCategory,
                                   [exc |-> "none", calls |-> procs[i].calls,
                                    io |-> procs[i].io, result |-> procs[i].data],
                                   e)} :
            /\ files' = wr.fs
            /\ procs' = [procs EXCEPT ![i].pc = "exited", ![i].exc = wr.exc,
                                      ![i].calls = wr.calls, ![i].io = wr.io]
            /\ last' = [Done("add", RaceCategory, wr) EXCEPT
                           !.title = procs[i].title, !.rating = procs[i].rating,
                           !.comment = procs[i].comment, !.arg = PyInt(i)]
            /\ live' = [live EXCEPT ![get_stufflog_path(RaceCategory)] =
                           @ \cup {procs[i].title.s}]
            /\ UNCHANGED <<gitDir, remotes, now, gone>>

\* the process of invocation i is gone; another may be started in its place
RaceExit(i) ==
    /\ procs[i].pc = "exited"
    /\ procs' = [procs EXCEPT ![i] = NotStarted]
    /\ last' = IF last.arg = PyInt(i) THEN NoLast ELSE last
    /\ UNCHANGED <<files, gitDir, remotes, now, live, gone>>

NextRace ==
    \/ \E i \in Invocations, a \in AddArgs : RaceRead(i, a[1], a[2], a[3])
    \/ \E i \in Invocations : RaceWrite(i)
    \/ \E i \in Invocations : RaceExit(i)

SpecRace == InitRace /\ [][NextRace]_vars

(***************************************************************************)
(* Adds with and without a comment on one initialised category, and        *)
(* searches for texts found in a title, in a comment, or in neither.       *)
(***************************************************************************)
CommentCategory == <<"b">>

CommentArgs == AddArgs \cup {<<(<<"d">>), PyInt(3), PyStr(<<"7">>)>>}

InitComment ==
    /\ files = [p \in Paths |->
                   IF p = get_stufflog_path(CommentCategory)
                   THEN yaml_dump(empty_stufflog) ELSE Absent]
    /\ gitDir = FALSE
    /\ remotes = FALSE
    /\ now = 1
    /\ last = NoLast
    /\ live = [p \in Paths |-> {}]
    /\ gone = [p \in Paths |-> {}]
    /\ procs = NoProcs

NextComment ==
    \/ \E a \in CommentArgs : AddCmd(CommentCategory, a[1], a[2], a[3])
    \/ \E t \in QueryTerms : SearchCmd(CommentCategory, t)
    \/ Exit

SpecComment == InitComment /\ [][NextComment]_vars

(***************************************************************************)
(* Properties.                                                             *)
(***************************************************************************)
\* whether the command l called fn on a collaborator, and how often
Made(l, fn) == \E i \in DOMAIN l.calls : l.calls[i].fn = fn
Count(l, fn) == Cardinality({i \in DOMAIN l.calls : l.calls[i].fn = fn})
Returned(l, fn, ret) == \E i \in DOMAIN l.calls : l.calls[i] = Call(fn, ret)

\* the backing file of a category
BackingFile(c) == get_stufflog_path(c)

\* the text "Entries: {}"
EntriesEmptyDoc ==
    Doc(MapNode(<<[k |-> Scalar("plain", <<"Entries">>), v |-> MapNode(<<>>)]>>))

\* the entry stored under a title in a file the program wrote
StoredEntry(p, t) ==
    DictGet(DictGet(construct(files[p].node), kEntries), PyStr(t))

\* the titles of the records of a result list
ResultTitles(l) == {DictGet(l.result[i], kTitle) : i \in DOMAIN l.result}

\* the command that has just run is op
Ran(op) == Idle /\ last'.op = op

\* C1: title uniqueness.  An add of a title that an earlier add stored under
\* the category, and that no successful delete has removed since, fails with
\* the duplicate-title error whatever its rating and comment; the match is
\* exact, so an add of a title that is not stored (one differing only in case
\* included) does not fail with that error.
C1_TitleUniqueness ==
    [][\A c \in Categories, t \in Titles :
          (Ran("add") /\ last'.cat = c /\ last'.title = PyStr(t))
              => (last'.exc = Conflict <=> t \in live[BackingFile(c)])]_vars

\* a duplicate add with another rating and with a comment has been refused
C1_Witness ==
    /\ last.op = "add"
    /\ last.exc = Conflict
    /\ last.comment # PyNone
    /\ last.title.s \in live[BackingFile(last.cat)]
    /\ DictGet(StoredEntry(BackingFile(last.cat), last.title.s), kRating) # last.rating

\* C2: a refused add of a stored title leaves every file as it was (the
\* stored entry keeps its Datetime, Rating and Comment), and neither the file
\* service's save nor the git service's push is called.
C2_FailedAddChangesNothing ==
    [][\A c \in Categories, t \in Titles :
          (Ran("add") /\ last'.cat = c /\ last'.title = PyStr(t)
              /\ t \in live[BackingFile(c)])
              => /\ last'.exc # "none"
                 /\ files' = files
                 /\ ~Made(last', "save")
                 /\ ~Made(last', "push")]_vars

\* an add of a stored title has been refused in a repository that has a
\* remote, and the stored entry differs from the one offered
C2_Witness ==
    /\ last.op = "add"
    /\ last.exc # "none"
    /\ last.title.s \in live[BackingFile(last.cat)]
    /\ Returned(last, "has_remotes", TRUE)
    /\ StoredEntry(BackingFile(last.cat), last.title.s)
          # new_entry(now, last.rating, last.comment)

\* C3: a title deleted from a category and not added again since is the
\* Title of no record that a query, a search or the display of the category
\* returns.
C3_DeletedNotShown ==
    (last.op \in {"query", "search", "display"} /\ last.exc = "none")
        => \A t \in gone[BackingFile(last.cat)] : PyStr(t) \notin ResultTitles(last)

\* a query or search has returned records from a category one of whose
\* titles is deleted
C3_Witness ==
    /\ last.op \in {"query", "search"}
    /\ last.exc = "none"
    /\ gone[BackingFile(last.cat)] # {}
    /\ last.result # <<>>

\* C4: a delete of a title that is not stored under an initialized category
\* fails with the entry-not-found error, calls neither save nor push, and
\* leaves every file as it was.
C4_DeleteMissingTitle ==
    [][\A c \in Categories, t \in Titles :
          (Ran("delete") /\ last'.cat = c /\ last'.title = PyStr(t)
              /\ files[BackingFile(c)] # Absent /\ t \notin live[BackingFile(c)])
              => /\ last'.exc = NotFoundEntry
                 /\ files' = files
                 /\ ~Made(last', "save")
                 /\ ~Made(last', "push")]_vars

\* a delete of a missing title has been refused in a category that stores
\* another entry
C4_Witness ==
    /\ last.op = "delete"
    /\ last.exc = NotFoundEntry
    /\ live[BackingFile(last.cat)] # {}
    /\ last.title.s \notin live[BackingFile(last.cat)]

\* C5: add, delete, query, search and the display of a category whose
\* backing file does not exist fail with the category-not-found error that
\* advises init; the file service's load is not called, nothing is saved and
\* no file is created.
C5_UninitializedCategory ==
    [][\A c \in Categories :
          (Idle /\ last'.op \in {"add", "delete", "query", "search", "display"}
              /\ last'.cat = c /\ files[BackingFile(c)] = Absent)
              => /\ last'.exc = NotFoundCategory
                 /\ ~Made(last', "load")
                 /\ ~Made(last', "save")
                 /\ files' = files]_vars

\* a command has been refused on an uninitialized category after a pull from
\* the remote, while another category is initialized
C5_Witness ==
    /\ last.op \in {"add", "delete", "query", "search", "display"}
    /\ last.exc = NotFoundCategory
    /\ files[BackingFile(last.cat)] = Absent
    /\ Made(last, "pull")
    /\ \E p \in Paths : files[p] # Absent

\* C6: init of a category whose backing file does not exist succeeds, writes
\* the text of {Entries: {}} to that file and to no other, and calls the git
\* service's init exactly once, with or without a remote.
C6_InitNewCategory ==
    [][\A c \in Categories :
          (Ran("init") /\ last'.cat = c /\ files[BackingFile(c)] = Absent)
              => /\ last'.exc = "none"
                 /\ files' = [files EXCEPT ![BackingFile(c)] = EntriesEmptyDoc]
                 /\ Count(last', "save") = 1
                 /\ Count(last', "init") = 1]_vars

\* a category has been initialized in a repository that has a remote, the
\* new file pushed, and git init called
C6_Witness ==
    /\ last.op = "init"
    /\ last.exc = "none"
    /\ files[BackingFile(last.cat)] = EntriesEmptyDoc
    /\ Made(last, "push")
    /\ Count(last, "init") = 1

\* C7: init of a category whose backing file exists fails with the
\* already-exists error, calls neither save nor git init, and leaves every
\* file (the category's entries with it) and the repository as they were.
C7_InitExistingCategory ==
    [][\A c \in Categories :
          (Ran("init") /\ last'.cat = c /\ files[BackingFile(c)] # Absent)
              => /\ last'.exc = AlreadyExists
                 /\ files' = files
                 /\ gitDir' = gitDir
                 /\ ~Made(last', "save")
                 /\ ~Made(last', "init")]_vars

\* init has been refused on a category that stores an entry
C7_Witness ==
    /\ last.op = "init"
    /\ last.exc = AlreadyExists
    /\ live[BackingFile(last.cat)] # {}
    /\ files[BackingFile(last.cat)] # EntriesEmptyDoc

C9_RoundTrip ==
    (last.op = "store_load" /\ last.arg # PyNone)
        => /\ last.exc = "none"
           /\ last.result = <<last.arg>>

\* a value of two entries, one titled with digits and commented, has been
\* saved and loaded back
C9_Witness ==
    /\ last.op = "store_load"
    /\ last.arg # PyNone
    /\ Len(DictGet(last.arg, kEntries).items) >= 2
    /\ DictGet(last.arg, kEntries).items[1].k = PyStr(<<"d">>)
    /\ DictGet(last.arg, kEntries).items[2].k = PyStr(<<"7">>)
    /\ DictHas(DictGet(last.arg, kEntries).items[2].v, kComment)
    /\ last.result = <<last.arg>>

C10_WitnessZeroByte ==
    /\ last.op = "store_load"
    /\ last.exc = "none"
    /\ files[BackingFile(last.cat)] = EmptyFile
    /\ last.result = <<PyDict(<<[k |-> kEntries, v |-> PyDict(<<>>)]>>)>>

\* the file content is no YAML, or is a YAML document whose value is not a
\* mapping with the Entries key
LacksEntries(content) ==
    \/ content = Garbage
    \/ /\ content.kind = "doc"
       /\ LET v == construct(content.node)
          IN  v.t # "dict" \/ \A i \in DOMAIN v.items : v.items[i].k # kEntries

\* C11: a load of an existing backing file whose content does not parse, or
\* parses to a value without the Entries key, raises nothing and returns a
\* stufflog whose entry mapping is empty.
C11_LoadNeverFailsOnContent ==
    [][\A n \in StoreNames :
          (last'.op = "store_load" /\ last'.cat = n
              /\ LacksEntries(files[BackingFile(n)]))
              => /\ last'.exc = "none"
                 /\ Len(last'.result) = 1
                 /\ last'.result[1].t = "dict"
                 /\ DictGet(last'.result[1], kEntries) = EmptyDict]_vars

\* a load of a file holding a lone scalar or a sequence has raised TypeError
C11_Witness ==
    /\ last.op = "store_load"
    /\ last.exc = "TypeError"
    /\ files[BackingFile(last.cat)].kind = "doc"
    /\ files[BackingFile(last.cat)].node.y \in {"scalar", "seq"}

\* what the load does instead: text that is no YAML and mappings without the
\* key give the empty entry mapping, other documents raise TypeError
C11_DegradesOnlyForMappings ==
    [][\A n \in StoreNames :
          (last'.op = "store_load" /\ last'.cat = n
              /\ LacksEntries(files[BackingFile(n)]))
              => LET c == files[BackingFile(n)]
                 IN  IF c = Garbage \/ c.node.y = "map"
                     THEN /\ last'.exc = "none"
                          /\ DictGet(last'.result[1], kEntries) = EmptyDict
                     ELSE last'.exc = "TypeError"]_vars

\* the items of the entry mapping stored in a backing file
StoredItems(p) == DictGet(construct(files[p].node), kEntries).items

\* the field of an entry, or PyNone if the entry lacks it
Field(entry, key) ==
    IF \E i \in DOMAIN entry.items : entry.items[i].k = key
    THEN entry.items[CHOOSE i \in DOMAIN entry.items : entry.items[i].k = key].v
    ELSE PyNone

\* the rating of an entry, 0 if it has none
RatingOr0(entry) == IF Field(entry, kRating) = PyNone THEN 0 ELSE Field(entry, kRating).n

\* the instant that the text of a timestamp denotes
InstantOf(text) == StrToNat(TsDigits(text.s))

\* the record of a stored item: a copy of the entry with its title added
RecordOf(item) == PyDict(Append(item.v.items, [k |-> kTitle, v |-> item.k]))

\* C12: filter strictness.  No record returned by a query has a Rating equal
\* to the query's GreaterThan or to its LessThan, or a Datetime denoting the
\* same timestamp as its After or its Before, however that bound is written.
C12_FilterStrictness ==
    last.op = "query" =>
        \A i \in DOMAIN last.result :
            LET rec == last.result[i]
                f == last.filter
                SameTimestamp(d) ==
                    /\ InstantOf(Field(rec, kDatetime)) = InstantOf(d)
                    /\ TsAware(Field(rec, kDatetime).s) = TsAware(d.s)
            IN  /\ f.greater_than # PyNone => RatingOr0(rec) # f.greater_than.n
                /\ f.less_than # PyNone => RatingOr0(rec) # f.less_than.n
                /\ f.after # PyNone => ~SameTimestamp(f.after)
                /\ f.before # PyNone => ~SameTimestamp(f.before)

\* a query with GreaterThan 3 and After the instant 1 written as T01 has
\* returned one record from a store that also holds an entry rated 3 at the
\* instant 1
C12_Witness ==
    /\ last.op = "query"
    /\ last.exc = "none"
    /\ last.filter.greater_than = PyInt(3)
    /\ last.filter.after = PyStr(<<"T", "0", "1">>)
    /\ Len(last.result) = 1
    /\ \E it \in Range(StoredItems(BackingFile(last.cat))) :
          /\ Field(it.v, kRating) = PyInt(3)
          /\ Field(it.v, kDatetime) = PyStr(isoformat(1))

\* the entry satisfies every set bound of the filter
Satisfies(entry, f) ==
    /\ f.greater_than # PyNone => RatingOr0(entry) > f.greater_than.n
    /\ f.less_than # PyNone => RatingOr0(entry) < f.less_than.n
    /\ f.after # PyNone => InstantOf(Field(entry, kDatetime)) > InstantOf(f.after)
    /\ f.before # PyNone => InstantOf(Field(entry, kDatetime)) < InstantOf(f.before)

\* the records of the stored entries that satisfy the filter
Satisfying(p, f) ==
    {RecordOf(it) : it \in {x \in Range(StoredItems(p)) : Satisfies(x.v, f)}}

\* the query returned exactly the records of the entries satisfying its filter
ExactResult ==
    /\ last.exc = "none"
    /\ Range(last.result) = Satisfying(BackingFile(last.cat), last.filter)
    /\ Len(last.result) = Cardinality(Satisfying(BackingFile(last.cat), last.filter))

\* C13: a query returns exactly the entries that satisfy every set bound,
\* an unset bound constraining nothing and a missing Rating counting as 0;
\* with no bound set it returns every entry.
C13_QueryExact == last.op = "query" => ExactResult

\* a query whose After carries a UTC offset has raised TypeError on a store
\* whose entries were written by add, where an entry satisfies every bound
C13_Witness ==
    /\ last.op = "query"
    /\ last.exc = "TypeError"
    /\ last.filter.after # PyNone /\ TsAware(last.filter.after.s)
    /\ Satisfying(BackingFile(last.cat), last.filter) # {}

\* the set date bounds and the stored Datetimes are all without UTC offset,
\* or all with one
Comparable(p, f) ==
    \A it \in Range(StoredItems(p)), b \in {f.after, f.before} \ {PyNone} :
        TsAware(Field(it.v, kDatetime).s) = TsAware(b.s)

\* what holds instead: the result is exact whenever the date bounds compare
\* with the stored Datetimes
C13_QueryExactComparable ==
    (last.op = "query" /\ Comparable(BackingFile(last.cat), last.filter))
        => ExactResult

\* a query with a rating bound and a date bound has returned, of the
\* stored entries, only the one without a Rating
C13_WitnessExact ==
    /\ last.op = "query"
    /\ ExactResult
    /\ last.filter.less_than = PyInt(1)
    /\ last.filter.after = PyStr(isoformat(1))
    /\ Len(last.result) = 1
    /\ Field(last.result[1], kRating) = PyNone
    /\ Len(StoredItems(BackingFile(last.cat))) = MaxQueryEntries

\* the pairs of letters that differ only in case
CasePairs == {{"a", "A"}, {"b", "B"}, {"d", "D"}, {"t", "T"}}
SameLetter(c1, c2) == c1 = c2 \/ {c1, c2} \in CasePairs

\* two texts that differ only in letter case
SameButCase(a, b) ==
    Len(a) = Len(b) /\ \A i \in DOMAIN a : SameLetter(a[i], b[i])

\* the term occurs in the text, letter case apart
Occurs(term, text) ==
    \E i \in 1..(Len(text) - Len(term) + 1) :
        SameButCase(SubSeq(text, i, i + Len(term) - 1), term)

\* the records of the stored entries whose title or comment holds the term
Matching(p, term) ==
    {RecordOf(it) : it \in {x \in Range(StoredItems(p)) :
        \/ Occurs(term, x.k.s)
        \/ Field(x.v, kComment) # PyNone /\ Occurs(term, Field(x.v, kComment).s)}}

\* C14: a search returns exactly the entries whose title, or whose Comment if
\* present, contains the term when both are lower-cased; a term that differs
\* from the searched one only in letter case returns the same records.
C14_SearchExact ==
    last.op = "search" =>
        /\ last.exc = "none"
        /\ Range(last.result) = Matching(BackingFile(last.cat), last.term)
        /\ Len(last.result) = Cardinality(Matching(BackingFile(last.cat), last.term))
        /\ \A t \in QueryTerms, e \in GitEnvs(gitDir, remotes) :
              SameButCase(t, last.term)
                  => search_entries(files, last.cat, t, e).result = last.result

\* a search for D has returned an entry titled d and an entry matched by its
\* comment alone
C14_Witness ==
    /\ last.op = "search"
    /\ last.term = <<"D">>
    /\ \E i \in DOMAIN last.result : Field(last.result[i], kTitle) = PyStr(<<"d">>)
    /\ \E i \in DOMAIN last.result :
          /\ ~Occurs(last.term, Field(last.result[i], kTitle).s)
          /\ Occurs(last.term, Field(last.result[i], kComment).s)
    /\ Len(last.result) = 2

\* the i-th call of the command l, if it made that many
CallAt(l, i) == IF i \in DOMAIN l.calls THEN l.calls[i] ELSE Call("none", FALSE)

\* the commands that load a category through the application
Loaders == {"add", "delete", "query", "search", "display"}

\* C15: the pull-before-read gate.  A command that loads a category first
\* asks has_remotes; if the answer is yes it calls pull once, before the
\* backing file is checked and read, and if the answer is no it never calls
\* pull; after a failed pull the load goes on and the local entries are
\* returned.
C15_PullBeforeRead ==
    last.op \in Loaders =>
        /\ CallAt(last, 1).fn = "has_remotes"
        /\ IF CallAt(last, 1).ret
           THEN /\ CallAt(last, 2).fn = "pull"
                /\ Count(last, "pull") = 1
                /\ CallAt(last, 3).fn = "exists"
           ELSE /\ Count(last, "pull") = 0
                /\ CallAt(last, 2).fn = "exists"
        /\ \A i \in DOMAIN last.calls :
              last.calls[i].fn = "load" => CallAt(last, i - 1) = Call("exists", TRUE)
        /\ files[BackingFile(last.cat)] = Absent <=> last.exc = NotFoundCategory
        /\ (last.op = "display" /\ files[BackingFile(last.cat)] # Absent)
              => /\ last.exc = "none"
                 /\ last.result = [i \in DOMAIN StoredItems(BackingFile(last.cat)) |->
                                      RecordOf(StoredItems(BackingFile(last.cat))[i])]

\* the display of a category has returned its entries after a failed pull
C15_Witness ==
    /\ last.op = "display"
    /\ CallAt(last, 1) = Call("has_remotes", TRUE)
    /\ CallAt(last, 2) = Call("pull", FALSE)
    /\ last.exc = "none"
    /\ last.result # <<>>

\* C16: the push-after-write gate.  A command that saves writes the file
\* first and then asks has_remotes; if the answer is yes it calls push once,
\* and if the answer is no it never calls push; after a failed push the
\* command still succeeds and the file keeps what was written.
C16_PushAfterWrite ==
    [][\A k \in DOMAIN last'.calls :
          (Idle /\ last'.calls[k].fn = "save")
              => /\ Count(last', "save") = 1
                 /\ CallAt(last', k + 1).fn = "has_remotes"
                 /\ IF CallAt(last', k + 1).ret
                    THEN /\ CallAt(last', k + 2).fn = "push"
                         /\ Count(last', "push") = 1
                    ELSE Count(last', "push") = 0
                 /\ last'.exc = "none"
                 /\ files'[BackingFile(last'.cat)] # files[BackingFile(last'.cat)]
                 /\ files'[BackingFile(last'.cat)] # Absent]_vars

\* an add has succeeded and its entry is in the file after a failed push
C16_Witness ==
    /\ last.op = "add"
    /\ last.exc = "none"
    /\ Returned(last, "push", FALSE)
    /\ StoredEntry(BackingFile(last.cat), last.title.s).t = "dict"

\* the environment in which no git operation fails
NoFailure(gd, rm) ==
    [hr1 |-> has_remotes(gd, rm, TRUE), pull |-> pull(gd, rm, TRUE, TRUE),
     hr2 |-> has_remotes(gd, rm, TRUE), push |-> push(gd, rm, TRUE, TRUE),
     fault |-> "none"]

\* what the command l, started in the current state, does when no git
\* operation fails
Unfailing(l) ==
    CASE l.op = "init" ->
            init_stufflog(files, gitDir, l.cat, NoFailure(gitDir, remotes), "ok")
      [] l.op = "add" ->
            add_entry(files, now, l.cat, l.title, l.rating, l.comment,
                      NoFailure(gitDir, remotes))
      [] l.op = "delete" ->
            delete_entry(files, l.cat, l.title, NoFailure(gitDir, remotes))
      [] l.op = "query" ->
            query_entries(files, l.cat, l.filter, NoFailure(gitDir, remotes))
      [] l.op = "search" ->
            search_entries(files, l.cat, l.term, NoFailure(gitDir, remotes))
      [] l.op = "display" -> display_all(files, l.cat, NoFailure(gitDir, remotes))

\* the command of this step lets no git failure out, and ends as it would
\* have ended had no git operation failed: same error or success, same
\* result, same files
NonFatalStep ==
    (Idle /\ last'.op # "none")
        => /\ last'.exc # LaunchError
           /\ last'.op \in {"init"} \cup Loaders
                 => Bind(Unfailing(last'), LAMBDA u :
                        /\ last'.exc = u.exc
                        /\ last'.result = u.result
                        /\ files' = u.fs)

\* C17: git failures are never fatal.  However a git operation fails,
\* has_remotes, init, pull, push and setup_remote return a boolean and raise
\* nothing, and the command around them ends as it would have without the
\* failure.
C17_GitFailuresNotFatal == [][NonFatalStep]_vars

\* init of a category has written the file and has then been ended by the
\* FileNotFoundError of a git that cannot be launched
C17_Witness ==
    /\ last.op = "init"
    /\ last.exc = LaunchError
    /\ files[BackingFile(last.cat)] = EntriesEmptyDoc
    /\ ~gitDir

\* what holds instead: a command that no launch failure ends, ends as it
\* would have ended without any git failure
C17_CaughtFailuresNotFatal ==
    [][last'.exc # LaunchError => NonFatalStep]_vars

\* an add has succeeded although both its pull and its push failed
C17_WitnessCaught ==
    /\ last.op = "add"
    /\ last.exc = "none"
    /\ Returned(last, "pull", FALSE)
    /\ Returned(last, "push", FALSE)

\* the number of messages the command l printed on a stream
Lines(l, stream) == Cardinality({i \in DOMAIN l.io : l.io[i] = stream})

\* C18: a command that fails (exit code other than 0) writes exactly one
\* message to the error stream and nothing to standard output; a command
\* that succeeds prints a confirmation line on standard output.
C18_ErrorSignalling ==
    last.op # "none"
        => IF last.code # 0
           THEN Lines(last, "err") = 1 /\ Lines(last, "out") = 0
           ELSE Lines(last, "out") >= 1

\* git init has failed and two messages are on the error stream: the one of
\* GitService.init and the one of GitInitCommandStrategy
C18_Witness ==
    /\ last.op = "git init"
    /\ last.code = 1
    /\ Lines(last, "err") = 2
    /\ Lines(last, "out") = 0

\* what holds instead: a failing command writes one or two messages to the
\* error stream and nothing to standard output, a succeeding one at least one
\* line to standard output
C18_FailureOnErrorStream ==
    last.op # "none"
        => IF last.code # 0
           THEN Lines(last, "err") \in 1..2 /\ Lines(last, "out") = 0
           ELSE Lines(last, "out") >= 1

\* an add of a title that exists has failed after a failed pull: the message
\* of the pull and the message of the conflict
C18_WitnessPull ==
    /\ last.op = "add"
    /\ last.exc = Conflict
    /\ Lines(last, "err") = 2

\* C19: every command ends with exit code 0 or 1 and with no exception left
\* unhandled: with 1 whenever the operation raised an exception, a
\* StufflogError or any other, and with 0 only when it completed without
\* error.
C19_ExitCode ==
    last.op # "none"
        => /\ last.code \in {0, 1}
           /\ ~last.traceback
           /\ last.exc # "none" => last.code = 1
           /\ last.code = 0
                 => /\ last.exc = "none"
                    /\ last.op = "git init" => Returned(last, "init", TRUE)
                    /\ last.op = "git remote" => Returned(last, "setup_remote", TRUE)

\* a command ended by an exception that is no StufflogError has exit code 1
C19_Witness ==
    /\ last.op # "none"
    /\ last.exc # "none"
    /\ last.exc \notin StufflogErrors
    /\ last.code = 1

\* a delete of a title that is not there has exit code 1
C19_WitnessDomain ==
    /\ last.op = "delete"
    /\ last.exc = NotFoundEntry
    /\ last.code = 1

\* a successful add has exit code 0
C19_WitnessSuccess ==
    /\ last.op = "add"
    /\ last.exc = "none"
    /\ last.code = 0

\* the entries of a stored file, none if there is no file
EntriesOf(file) ==
    IF file = Absent THEN PyDict(<<>>)
    ELSE DictGet(construct(file.node), kEntries)

\* the file p holds an entry under the title t
HasEntry(p, t) == DictHas(EntriesOf(files[p]), PyStr(t))

\* the command that has just run is a successful op on the title t of the file p
Succeeded(op, p, t) ==
    /\ Ran(op)
    /\ last'.exc = "none"
    /\ BackingFile(last'.cat) = p
    /\ last'.title = PyStr(t)

\* C20: entries are immutable in place.  A successful add stores under its
\* title the Datetime of that moment, its rating and its comment; from then
\* on every command, whatever title it is about, leaves the entry where it is
\* and as it is, except a successful delete of that title.
C20_EntriesImmutable ==
    [][\A p \in Paths :
          IF files'[p] = files[p]
          THEN \A t \in Titles : ~Succeeded("add", p, t) /\ ~Succeeded("delete", p, t)
          ELSE Bind(EntriesOf(files[p]), LAMBDA old :
               Bind(EntriesOf(files'[p]), LAMBDA new :
               \A t \in Titles :
                  /\ Succeeded("add", p, t)
                        => /\ ~DictHas(old, PyStr(t))
                           /\ DictHas(new, PyStr(t))
                           /\ DictGet(new, PyStr(t))
                                 = new_entry(now, last'.rating, last'.comment)
                  /\ Succeeded("delete", p, t)
                        => (DictHas(old, PyStr(t)) /\ ~DictHas(new, PyStr(t)))
                  /\ (DictHas(old, PyStr(t)) /\ ~Succeeded("delete", p, t))
                        => /\ DictHas(new, PyStr(t))
                           /\ DictGet(new, PyStr(t)) = DictGet(old, PyStr(t))))]_vars

\* the entry added first, at time 1 with rating 5 and comment "D", is as it
\* was created after another title has been added and deleted again
C20_Witness ==
    /\ last.op = "delete"
    /\ last.exc = "none"
    /\ last.title = PyStr(<<"D">>)
    /\ HasEntry(BackingFile(last.cat), <<"d">>)
    /\ StoredEntry(BackingFile(last.cat), <<"d">>)
          = new_entry(1, PyInt(5), PyStr(<<"D">>))
    /\ now = 3

\* the value a load returned exposes Entries as a mapping
ExposesMapping(l) ==
    /\ l.exc = "none"
    /\ Len(l.result) = 1
    /\ l.result[1].t = "dict"
    /\ DictHas(l.result[1], kEntries)
    /\ DictGet(l.result[1], kEntries).t = "dict"

\* the content is one whose value is a mapping in which Entries, if present,
\* is a mapping, or is no document at all
MappingShaped(content) ==
    \/ content \in {Absent, EmptyFile, Garbage}
    \/ /\ content.kind = "doc"
       /\ Bind(construct(content.node), LAMBDA v :
              /\ v.t = "dict"
              /\ DictHas(v, kEntries) => DictGet(v, kEntries).t = "dict")

\* C21: whatever the backing file holds (nothing, no bytes, text that is no
\* YAML, a document without Entries, a document with Entries of any value),
\* the value a load returns has Entries, and Entries is a mapping.
C21_EntryMappingInvariant ==
    [][last'.op = "store_load" => ExposesMapping(last')]_vars

\* a load of the document "Entries: null" has returned a value whose Entries
\* is None
C21_Witness ==
    /\ last.op = "store_load"
    /\ last.exc = "none"
    /\ Len(last.result) = 1
    /\ DictHas(last.result[1], kEntries)
    /\ DictGet(last.result[1], kEntries) = PyNone

\* what holds instead: the load returns an entry mapping for a missing file,
\* an empty one, text that is no YAML, and mappings whose Entries is absent
\* or a mapping; for other documents it does not
C21_MappingForMappingShaped ==
    [][\A n \in StoreNames :
          (last'.op = "store_load" /\ last'.cat = n)
              => (ExposesMapping(last') <=> MappingShaped(files[BackingFile(n)]))]_vars

\* a load of a file that add wrote has returned its entry mapping
C21_WitnessStored ==
    /\ last.op = "store_load"
    /\ ExposesMapping(last)
    /\ Len(DictGet(last.result[1], kEntries).items) = 2

\* the titles of a stored file, in the order in which the file holds them
TitleOrder(file) ==
    [i \in DOMAIN EntriesOf(file).items |-> EntriesOf(file).items[i].k]

\* the titles of the records of a result list, in the order of the list
ResultOrder(l) == [i \in DOMAIN l.result |-> DictGet(l.result[i], kTitle)]

\* C22: results come in insertion order.  A successful add puts its title
\* after all titles stored, a successful delete takes its title out and
\* leaves the others in their order, no other step changes the stored order
\* (the file is never written with its keys sorted), and the records of a
\* query or search are in the stored order.
C22_ResultOrdering ==
    [][\A p \in Paths :
          Bind(TitleOrder(files[p]), LAMBDA old :
          Bind(TitleOrder(files'[p]), LAMBDA new :
             /\ \A t \in Titles :
                   /\ Succeeded("add", p, t) => new = Append(old, PyStr(t))
                   /\ Succeeded("delete", p, t)
                         => new = SelectSeq(old, LAMBDA k : k # PyStr(t))
             /\ (\A t \in Titles : ~Succeeded("add", p, t) /\ ~Succeeded("delete", p, t))
                   => new = old
             /\ (Idle /\ last'.op \in {"query", "search"} /\ last'.exc = "none"
                      /\ BackingFile(last'.cat) = p)
                   => ResultOrder(last')
                         = SelectSeq(old, LAMBDA k : k \in Range(ResultOrder(last')))))]_vars

\* the store held "d" before "D"; "d" was deleted and added again at instant
\* 1, and a query returns "D" before "d"
C22_Witness ==
    /\ last.op = "query"
    /\ last.exc = "none"
    /\ ResultOrder(last) = <<PyStr(<<"D">>), PyStr(<<"d">>)>>
    /\ DictGet(last.result[1], kDatetime) = PyStr(isoformat(0))
    /\ DictGet(last.result[2], kDatetime) = PyStr(isoformat(1))

\* the entry has no Datetime, or one that fromisoformat does not accept
BadDatetime(entry) ==
    \/ ~DictHas(entry, kDatetime)
    \/ fromisoformat(DictGet(entry, kDatetime)).exc # "none"

\* the entry has no Datetime, or one that is text but no timestamp
UnparsedDatetime(entry) ==
    fromisoformat(DictGetDefault(entry, kDatetime, PyStr(<<>>))).exc = "ValueError"

\* the entries stored for the category of the command l
StoredOf(l) == EntriesOf(files[BackingFile(l.cat)]).items

\* each date bound of the filter is unset, or text without a UTC offset
PlainBounds(f) ==
    \A b \in {f.after, f.before} :
        b # PyNone => (b.t = "str" /\ ~fromisoformat(b).aware)

\* C23: a query with After or Before set on a category in which some entry
\* has no Datetime or a malformed one fails as a whole with the error of the
\* parse, also when a rating bound would exclude that entry: nothing is
\* returned and nothing is printed on standard output.
C23_MalformedDatetimeFails ==
    (last.op = "query" /\ (last.filter.after # PyNone \/ last.filter.before # PyNone))
        => Bind(StoredOf(last), LAMBDA items :
              /\ (\E i \in DOMAIN items : BadDatetime(items[i].v))
                    => /\ last.exc \in {"ValueError", "TypeError"}
                       /\ last.result = <<>>
                       /\ last.code = 1
                       /\ Lines(last, "out") = 0
              /\ ((\E i \in DOMAIN items : UnparsedDatetime(items[i].v))
                     /\ (\A i \in DOMAIN items :
                            BadDatetime(items[i].v) => UnparsedDatetime(items[i].v))
                     /\ PlainBounds(last.filter))
                    => last.exc = "ValueError")

\* a query with --greater-than 3 and --after has failed with the parse error
\* on a store whose second entry has rating 1 and no Datetime
C23_Witness ==
    /\ last.op = "query"
    /\ last.filter.greater_than = PyInt(3)
    /\ last.filter.after = PyStr(isoformat(1))
    /\ last.filter.before = PyNone
    /\ last.exc = "ValueError"
    /\ Len(StoredOf(last)) = 2
    /\ ~BadDatetime(StoredOf(last)[1].v)
    /\ StoredOf(last)[2].v = PyDict(<<[k |-> kRating, v |-> PyInt(1)]>>)

\* a date bound of the filter is set and is no timestamp
UnparseableBound(f) ==
    \E b \in {f.after, f.before} : b # PyNone /\ fromisoformat(b).exc # "none"

\* the command l has failed as a not-found or conflict does: an exception, a
\* message on the error stream, nothing on standard output, exit code 1
SurfacedAsError(l) ==
    /\ l.exc # "none"
    /\ l.code = 1
    /\ Lines(l, "err") >= 1
    /\ Lines(l, "out") = 0

\* C24: a query whose After or Before bound is no ISO-8601 timestamp fails,
\* and the failure reaches the user as not-found and conflict do: a message
\* on the error stream and a non-zero exit code.
C24_UnparseableBoundFails ==
    (last.op = "query" /\ UnparseableBound(last.filter)) => SurfacedAsError(last)

\* a query with an unparseable --after on a category without entries has
\* succeeded: no error, "No matching entries found." and exit code 0
C24_Witness ==
    /\ last.op = "query"
    /\ last.filter.after = PyStr(<<"d">>)
    /\ Len(StoredOf(last)) = 0
    /\ last.exc = "none"
    /\ last.code = 0
    /\ last.io = <<"out">>

\* what holds instead: the bound is parsed inside the loop over the entries,
\* so the query fails exactly when the category holds an entry
C24_FailsWhenEntriesStored ==
    (last.op = "query" /\ UnparseableBound(last.filter))
        => IF Len(StoredOf(last)) > 0
           THEN SurfacedAsError(last) /\ last.exc \in {"ValueError", "TypeError"}
           ELSE last.exc = "none" /\ last.code = 0 /\ last.result = <<>>

\* a query with an unparseable --before has failed with the parse error on a
\* store of well-formed entries
C24_WitnessFails ==
    /\ last.op = "query"
    /\ last.filter.before = PyStr(<<"d">>)
    /\ last.filter.after = PyNone
    /\ Len(StoredOf(last)) = 1
    /\ ~BadDatetime(StoredOf(last)[1].v)
    /\ last.exc = "ValueError"
    /\ SurfacedAsError(last)

\* C25: query and search are read-only.  They make no save and no push and
\* leave every file as it is; each record returned is the entry stored under
\* some title with the field Title, equal to that title, added to it; and
\* the entries in the file have no Title field.
C25_QueryAndSearchReadOnly ==
    [][(Idle /\ last'.op \in {"query", "search"})
          => /\ files' = files
             /\ ~Made(last', "save")
             /\ ~Made(last', "push")
             /\ last'.exc = "none"
                   => Bind(EntriesOf(files'[BackingFile(last'.cat)]), LAMBDA stored :
                         /\ \A i \in DOMAIN last'.result :
                               Bind(last'.result[i], LAMBDA rec :
                                  /\ DictHas(rec, kTitle)
                                  /\ DictHas(stored, DictGet(rec, kTitle))
                                  /\ rec = DictSet(DictGet(stored, DictGet(rec, kTitle)),
                                                   kTitle, DictGet(rec, kTitle))
                                  /\ DictDel(rec, kTitle)
                                        = DictGet(stored, DictGet(rec, kTitle)))
                         /\ \A j \in DOMAIN stored.items :
                               ~DictHas(stored.items[j].v, kTitle))]_vars

\* a search in a repository with a remote has returned two records and has
\* pulled, and nothing was saved or pushed
C25_Witness ==
    /\ last.op = "search"
    /\ last.exc = "none"
    /\ Len(last.result) = 2
    /\ Returned(last, "pull", TRUE)
    /\ ~Made(last, "save")
    /\ ~Made(last, "push")

\* the calls of a load: has_remotes, pull if it returned true, the existence
\* check and, if the file exists, the read
LoadCalls(h, pulled, there) ==
    <<Call("has_remotes", h)>>
    \o (IF h THEN <<Call("pull", pulled)>> ELSE <<>>)
    \o <<Call("exists", there)>>
    \o (IF there THEN <<Call("load", TRUE)>> ELSE <<>>)

\* the calls of a save: the write, has_remotes, push if it returned true
SaveCalls(h, pushed) ==
    <<Call("save", TRUE), Call("has_remotes", h)>>
    \o (IF h THEN <<Call("push", pushed)>> ELSE <<>>)

\* C26: one add or delete makes its steps in the order pull (only with a
\* remote), read, write, push (only with a remote), with one read of the
\* file and at most one write; when it fails, as not-found or conflict, it
\* writes nothing and pushes nothing.
C26_StepOrder ==
    last.op \in {"add", "delete"}
        => /\ \E h1, pulled, there, h2, pushed \in BOOLEAN :
                 /\ h1 \/ h2 => gitDir /\ remotes
                 /\ last.calls = IF last.exc = "none"
                                 THEN LoadCalls(h1, pulled, TRUE) \o SaveCalls(h2, pushed)
                                 ELSE LoadCalls(h1, pulled, there)
           /\ Count(last, "exists") = 1
           /\ Count(last, "load") = (IF last.exc = NotFoundCategory THEN 0 ELSE 1)
           /\ Count(last, "save") <= 1
           /\ last.exc # "none" => ~Made(last, "save") /\ ~Made(last, "push")

\* an add with a remote has pulled, read, written and pushed, in this order
C26_Witness ==
    /\ last.op = "add"
    /\ last.exc = "none"
    /\ last.calls = <<Call("has_remotes", TRUE), Call("pull", TRUE),
                      Call("exists", TRUE), Call("load", TRUE),
                      Call("save", TRUE), Call("has_remotes", TRUE),
                      Call("push", TRUE)>>

\* a delete of a title that is not stored has pulled and read, and has
\* neither written nor pushed
C26_WitnessFailed ==
    /\ last.op = "delete"
    /\ last.exc = NotFoundEntry
    /\ last.calls = <<Call("has_remotes", TRUE), Call("pull", TRUE),
                      Call("exists", TRUE), Call("load", TRUE)>>

\* invocation i has reported success: it has printed the "Added entry" line
Reported(i) ==
    /\ procs[i].pc = "exited"
    /\ procs[i].exc = "none"
    /\ Len(procs[i].io) > 0
    /\ procs[i].io[Len(procs[i].io)] = "out"

\* invocation j was the last to write the backing file
WroteLast(j) == last.op = "add" /\ last.exc = "none" /\ last.arg = PyInt(j)

\* C27: lost update.  When two concurrent invocations of add with distinct
\* titles have both reported success, the backing file is what the
\* invocation that wrote last saved: it holds that invocation's entry, and it
\* holds the other invocation's entry only if the last writer had read it,
\* that is, only if the other wrote before the last writer read.  With the
\* other interleaving the file holds only the entry of the last writer.
C27_LastWriterWins ==
    \A i, j \in Invocations :
        (/\ i # j
         /\ Reported(i) /\ Reported(j)
         /\ procs[i].title # procs[j].title
         /\ WroteLast(j))
            => /\ files[BackingFile(RaceCategory)] = yaml_dump(procs[j].data)
               /\ DictHas(EntriesOf(files[BackingFile(RaceCategory)]), procs[j].title)
               /\ DictHas(EntriesOf(files[BackingFile(RaceCategory)]), procs[i].title)
                      <=> DictHas(DictGet(procs[j].data, kEntries), procs[i].title)

\* both invocations reported success and the file holds one entry, the last
\* writer's
C27_Witness ==
    \E i, j \in Invocations :
        /\ i # j
        /\ Reported(i) /\ Reported(j)
        /\ procs[i].title # procs[j].title
        /\ WroteLast(j)
        /\ TitleOrder(files[BackingFile(RaceCategory)]) = <<procs[j].title>>
        /\ ~DictHas(EntriesOf(files[BackingFile(RaceCategory)]), procs[i].title)

\* both invocations reported success and the file holds both entries
C27_WitnessKept ==
    \E i, j \in Invocations :
        /\ i # j
        /\ Reported(i) /\ Reported(j)
        /\ WroteLast(j)
        /\ TitleOrder(files[BackingFile(RaceCategory)])
               = <<procs[i].title, procs[j].title>>

\* a comment was supplied and is not the empty string
NonEmptyComment(c) == c.t = "str" /\ Len(c.s) > 0

\* C28: the stored entry.  A successful add stores under its title an entry
\* with the Datetime of that moment and the rating given, followed by a
\* Comment, the comment given, only if a non-empty comment was given; with no
\* comment or the empty string the entry has no Comment key.  A successful
\* search returns a stored entry without a Comment key exactly when the
\* lower-cased term occurs in its lower-cased title.
C28_StoredEntry ==
    [][/\ (Ran("add") /\ last'.exc = "none")
            => Bind(DictGet(EntriesOf(files'[BackingFile(last'.cat)]), last'.title),
                    LAMBDA en :
                    /\ KeySeq(en) = (IF NonEmptyComment(last'.comment)
                                     THEN <<kDatetime, kRating, kComment>>
                                     ELSE <<kDatetime, kRating>>)
                    /\ DictGet(en, kDatetime) = PyStr(isoformat(now))
                    /\ DictGet(en, kRating) = last'.rating
                    /\ NonEmptyComment(last'.comment)
                          => DictGet(en, kComment) = last'.comment)
       /\ (Ran("search") /\ last'.exc = "none")
            => Bind(EntriesOf(files[BackingFile(last'.cat)]), LAMBDA stored :
               \A i \in DOMAIN stored.items :
                  ~DictHas(stored.items[i].v, kComment)
                     => (stored.items[i].k \in ResultTitles(last')
                            <=> Contains(lower(stored.items[i].k.s),
                                         lower(last'.term))))]_vars

\* the entry "D", added with rating 3 and the empty string as its comment, has
\* no Comment key, and a search for "7" leaves it out while it returns the
\* entry "d", found through its comment
C28_Witness ==
    /\ last.op = "search"
    /\ last.exc = "none"
    /\ last.term = <<"7">>
    /\ HasEntry(BackingFile(last.cat), <<"D">>)
    /\ KeySeq(StoredEntry(BackingFile(last.cat), <<"D">>)) = <<kDatetime, kRating>>
    /\ DictGet(StoredEntry(BackingFile(last.cat), <<"D">>), kRating) = PyInt(3)
    /\ ResultTitles(last) = {PyStr(<<"d">>)}

\* the same entry is returned by a search for a text of its title
C28_WitnessTitle ==
    /\ last.op = "search"
    /\ last.exc = "none"
    /\ last.term = <<"D">>
    /\ HasEntry(BackingFile(last.cat), <<"D">>)
    /\ ~DictHas(StoredEntry(BackingFile(last.cat), <<"D">>), kComment)
    /\ DictGet(StoredEntry(BackingFile(last.cat), <<"D">>), kRating) = PyInt(3)
    /\ PyStr(<<"D">>) \in ResultTitles(last)

\* the command that has just run is an init, add or delete on the category a
WroteTo(a) ==
    /\ Ran("init") \/ Ran("add") \/ Ran("delete")
    /\ last'.cat = a

\* C29: category isolation, as stated.  For two distinct category names a
\* and b, an init, add or delete on a leaves unchanged whether b exists and
\* the entries stored under b.
C29_CategoryIsolation ==
    [][\A a, b \in Categories :
          (a # b /\ WroteTo(a))
             => /\ exists(files', BackingFile(b)) = exists(files, BackingFile(b))
                /\ EntriesOf(files'[BackingFile(b)]) = EntriesOf(files[BackingFile(b)])]_vars

\* C29, for names with distinct backing files: an init, add or delete on a
\* leaves the backing file of b as it is, byte for byte, when a and b resolve
\* to distinct paths; and two names resolve to one path only if one is the
\* other followed by ".yml".
C29_IsolationOfDistinctFiles ==
    [][\A a, b \in Categories :
          /\ (BackingFile(a) # BackingFile(b) /\ WroteTo(a))
                => files'[BackingFile(b)] = files[BackingFile(b)]
          /\ (a # b /\ BackingFile(a) = BackingFile(b))
                => (a = b \o YmlExt \/ b = a \o YmlExt)]_vars

\* an add on the category "m" has succeeded while "b" holds an entry
C29_Witness ==
    /\ last.op = "add"
    /\ last.exc = "none"
    /\ last.cat = <<"m">>
    /\ HasEntry(BackingFile(<<"b">>), <<"d">>)
    /\ ~HasEntry(BackingFile(<<"m">>), <<"d">>)

\* an add on the category "b" has stored its entry in the file that the
\* category "b.yml" was initialised in
C29_WitnessAlias ==
    /\ last.op = "add"
    /\ last.exc = "none"
    /\ last.cat = <<"b">>
    /\ <<"d">> \in live[BackingFile(<<"b", ".yml">>)]
    /\ HasEntry(BackingFile(<<"b", ".yml">>), <<"d">>)

====
